---- MODULE Spec2Model ----
(***************************************************************************)
(* Model of the model resource manager of src/src/multi-model.ts           *)
(* (class MultiModelInference) and of the interactive tool's use of it     *)
(* (class InteractiveMultiModel, src/unnamed/part_001).                    *)
(*                                                                         *)
(* Every async method is cut at its awaits: the code between two awaits is *)
(* one atomic step (JavaScript runs it to completion), and the settling of *)
(* an awaited engine promise is a step of its own, so that the callers'    *)
(* continuations interleave the way the event loop lets them.              *)
(*                                                                         *)
(* The inference engine (node-llama-cpp) is an external collaborator.  Its *)
(* calls may fail: loadModel, createContext and prompt reject, dispose     *)
(* returns a promise that may reject, getSequence throws on a context on   *)
(* which dispose was invoked.  Engine handles are numbered: the n-th model *)
(* the engine constructs is model handle n, and the one context the code   *)
(* creates from it is context handle n.                                    *)
(*                                                                         *)
(* The files under models/ belong to the environment: each existsSync      *)
(* reads a file state that is an input of the step.                        *)
(***************************************************************************)
EXTENDS Integers, FiniteSets, Sequences, Bags, TLC

\* ------------------------------------------------------------------ bounds
MaxLoads == 2       \* models the engine constructs in one behaviour

Ids == {1, 2}                    \* models[i-1].name, in catalog order
UnknownName == 0                 \* a name that is not in the catalog
Names == Ids \cup {UnknownName}
Tasks == {1, 2}                  \* the callers that may have a call in progress
FileStates == {"Absent", "Partial", "Complete"}

NoEntry == [model |-> 0, context |-> 0]

VARIABLES
    llama,             \* this.llama is set
    enabled,           \* models[i].enabled
    loadedModels,      \* this.loadedModels: name -> {model, context} or NoEntry
    loadedPos,         \* insertion position of a key in the Map
    nextHandle,        \* number of the next model the engine constructs
    disposedModels,    \* model handles on which dispose() was invoked
    disposedContexts,  \* context handles on which dispose() was invoked
    evicted,           \* <<name, model handle>> of the pairs setModelEnabled evicted
    unhandled,         \* a rejected promise was dropped with no handler
    threads,           \* the async calls in progress: a bag of call records
    currentChatSession,\* the interactive tool's chat session, or NoSession
    history,           \* live contexts whose sequence holds evaluated tokens
    dl,                \* the downloadModel call: position, locals, arguments
    tempFile,          \* the file at `${filePath}.tmp`, or NoFile
    destFile,          \* the file at filePath, or NoFile
    transfers,         \* the transfers that ran: locator used and how it ended
    comparison,        \* a displayComparison call: its argument and what it lists
    stream,            \* a streaming prompt: chunks written out and accumulated
    sequences,         \* the sequences obtained from each registered context
    custom,            \* loadCustomModel: its entries of the Map, call and return
    chatMenu           \* chatMode: the models listed and the one selected

vars == <<llama, enabled, loadedModels, loadedPos, nextHandle, disposedModels,
          disposedContexts, evicted, unhandled, threads, currentChatSession,
          history, dl, tempFile, destFile, transfers, comparison, stream,
          sequences, custom, chatMenu>>

\* The downloader's state (src/src/download-models.ts).
dlvars == <<dl, tempFile, destFile, transfers>>

\* What displayComparison and a streaming inferSingle work on, the sequences
\* handed out by context.getSequence(), and what loadCustomModel and
\* chatMode's model selection work on.
uivars == <<comparison, stream, sequences, custom, chatMenu>>

\* The state of MultiModelInference and of the interactive tool.
mmvars == <<llama, enabled, loadedModels, loadedPos, nextHandle, disposedModels,
           disposedContexts, evicted, unhandled, threads, currentChatSession,
           history>>

\* ------------------------------------------------------ calls in progress
\* The record of a call: the method, where it is suspended, and its locals.
\* Idle stands for a call that has returned or thrown.
Idle == [op |-> "none", pc |-> "idle", name |-> 0, model |-> 0, context |-> 0,
         cursor |-> 0, snap |-> {}, out |-> "none", err |-> "none",
         results |-> <<>>]

NoSession == [context |-> 0, modelName |-> 0]

\* The interactive tool after an error reached main().catch: no menu is shown
\* again.
Crashed == [Idle EXCEPT !.op = "tool", !.pc = "crashed"]

\* The tool after error err left call r uncaught.
CrashedFrom(r, err) == [Crashed EXCEPT !.out = r.op, !.err = err]

\* A settled callback of inferParallel: its promise holds out until Promise.all
\* hands the results over.
Settled(r, out, err) ==
    [Idle EXCEPT !.op = r.op, !.pc = "done", !.name = r.name, !.out = out,
                 !.err = err]

Start(op, name) == [Idle EXCEPT !.op = op, !.name = name]

\* inferSequential's `await this.inferSingle(...)` has settled for the model
\* r.name: the loop resumes with the result or the error.
SeqSettled(r, out, err) ==
    [r EXCEPT !.pc = "seqResume", !.model = 0, !.context = 0, !.out = out,
              !.err = err]

\* inferSequential called by the tool's runSequential, or by a caller of the
\* class; likewise inferParallel.
SeqOps == {"runSequential", "inferSequential"}

ParOps == {"runParallel", "inferParallel"}

Calls == BagToSet(threads)

\* The calls in progress once call r has become n (r = Idle: a new call).
Replace(r, n) ==
    LET rest == threads (-) SetToBag({r})
    IN IF n = Idle THEN rest ELSE rest (+) SetToBag({n})

\* A caller is free to make a call.
CanCall == BagCardinality(threads) < Cardinality(Tasks)

\* What a call hands back to its caller: nothing yet (it is awaiting), a pair,
\* a result, or an error raised.
NoReturn == [out |-> "none", err |-> "none", model |-> 0, context |-> 0]

ReturnPair(e) == [NoReturn EXCEPT !.out = "pair", !.model = e.model,
                                  !.context = e.context]

Raise(err) == [NoReturn EXCEPT !.out = "raise", !.err = err]

\* The outcome of a piece of code: the caller's record afterwards, and what was
\* handed back to the caller.
Outcome(th, ret) == [th |-> th, ret |-> ret]

\* No file at a path.
NoFile == [size |-> 0, from |-> "none"]

\* A file an earlier run of the downloader left behind.
PreviousFile == [size |-> 101, from |-> "previous"]

\* The downloader before its menu is shown: no model selected, downloadModel
\* not called.
NoDownload == [pc |-> "start", attempts |-> 0, usingFallback |-> FALSE,
               msg |-> <<>>, ret |-> "none", fallbackUrl |-> FALSE,
               expectedSize |-> 0, existed |-> FALSE, status |-> "none",
               wget |-> "unasked", curl |-> "unasked", ran |-> <<>>]

\* No displayComparison call, no streaming prompt.
NoComparison == [pc |-> "none", results |-> <<>>, compact |-> FALSE,
                 sorted |-> <<>>]

\* The paths loadCustomModel is called with: a directory and a file name.
Paths == [dir : {"a", "b"}, base : {"m.gguf", "n.gguf"}]

\* path.basename(modelPath)
basename(modelPath) == modelPath.base

\* `custom_${path.basename(modelPath)}` (line 276)
customName(modelPath) == <<"custom_", basename(modelPath)>>

\* No pair under a key of the Map. A pair is told from another by the file
\* the engine loaded it from.
NoPair == [dir |-> "none", base |-> "none"]

\* No loadCustomModel call made.
NoCustom == [pc |-> "idle", path |-> NoPair,
             loadedModels |-> [k \in {customName(q) : q \in Paths} |-> NoPair],
             out |-> "none", pair |-> NoPair, loads |-> 0]

\* chatMode not entered.
NoChatMenu == [pc |-> "menu", modelConfigs |-> <<>>, listed |-> <<>>,
               modelChoice |-> 0, selectedModel |-> "none"]

\* No context created, no sequence obtained.
NoSequences == [pc |-> "menu", name |-> 0,
                context |-> [i \in Ids |-> "none"],
                used |-> [i \in Ids |-> 0],
                unused |-> [i \in Ids |-> 0],
                refused |-> FALSE]

NoStream == [pc |-> "none", chunks |-> <<>>, stdout |-> <<>>, response |-> <<>>,
             result |-> <<>>]

\* ------------------------------------------------------------- the Map
Has(name) == loadedModels[name] # NoEntry

Get(name) == loadedModels[name]

\* Map.set: a new key is appended, an existing key keeps its position.
SetPos(name, e) ==
    [loadedPos EXCEPT ![name] = IF Has(name) THEN @ ELSE e.context]

MapSet(name, e) == [loadedModels EXCEPT ![name] = e]

\* delete that leaves the entry in the Map.
MapDeleteKeep(name) == loadedModels

MapDelete(name) == [loadedModels EXCEPT ![name] = NoEntry]

PosDelete(name) == [loadedPos EXCEPT ![name] = 0]

MapClear == [n \in Names |-> NoEntry]

PosClear == [n \in Names |-> 0]

\* The keys a Map iterator that last visited position cursor has yet to visit.
KeysAfter(cursor) == {n \in Names : Has(n) /\ loadedPos[n] > cursor}

NextKey(cursor) ==
    CHOOSE n \in KeysAfter(cursor) :
        \A m \in KeysAfter(cursor) : loadedPos[n] <= loadedPos[m]

\* sequence.clearHistory() (lines 328, 337, 532); a disposed context holds no
\* sequence state either.
ClearHistory(c) == history \ {c}

\* The prompt rejected and the catch block rethrows (lines 344-347): what the
\* prompt evaluated stays in the sequence of a context still alive.
KeepHistory(c) == IF c \in disposedContexts THEN history ELSE history \cup {c}

\* ------------------------------------------------------------- the disk
\* existsSync(path): f is the state of the file when the call reads it.
existsSync(f) == f # "Absent"

\* ------------------------------------------------- loadModel (lines 241-266)
\* What the caller of loadModel does when loadModel returns the pair e.
\* inferSingle (line 311), the tool's initializeChatSession (part_001 line 536)
\* and inferParallel's pre-load (line 359) await it.
LoadReturned(r, e) ==
    CASE r.op = "loadModel" -> Outcome(Idle, ReturnPair(e))
      [] r.op \in {"inferSingle", "runSingle", "parInfer"} ->
            Outcome([r EXCEPT !.pc = "afterLoad", !.model = 0,
                              !.context = e.context], NoReturn)
      [] r.op = "chat" ->
            Outcome([r EXCEPT !.pc = "afterLoad", !.model = e.model,
                              !.context = e.context], NoReturn)
      [] r.op = "parLoad" -> Outcome(Settled(r, "true", "none"), NoReturn)
      [] r.op \in SeqOps ->
            Outcome([r EXCEPT !.pc = "afterLoad", !.model = 0,
                              !.context = e.context], NoReturn)

\* loadModel's error left uncaught by inferParallel and inferSequential.
LoadRaisedUncaught(r, err) ==
    CASE r.op \in {"loadModel", "inferSingle"} -> Outcome(Idle, Raise(err))
      [] OTHER -> Outcome(CrashedFrom(r, err), Raise(err))

\* What the caller of loadModel does when loadModel throws err: inferSingle
\* logs and rethrows (lines 344-347), in the tool the error ends the menu loop,
\* inferParallel catches it (lines 361-364 and 412-418).
LoadRaised(r, err) ==
    CASE r.op \in {"loadModel", "inferSingle"} -> Outcome(Idle, Raise(err))
      [] r.op \in {"chat", "runSingle"} -> Outcome(CrashedFrom(r, err), Raise(err))
      [] r.op = "parLoad" -> Outcome(Settled(r, "false", err), NoReturn)
      [] r.op = "parInfer" -> Outcome(Settled(r, "error", err), NoReturn)
      [] r.op \in SeqOps -> Outcome(SeqSettled(r, "error", err), NoReturn)

\* loadModel without the tests of lines 242 and 249-251.
LoadModelEntryUnchecked(r, f) ==
    IF Has(r.name) THEN LoadReturned(r, Get(r.name))
    ELSE Outcome([r EXCEPT !.pc = "awaitLoadModel"], NoReturn)

\* loadModel without the cache test of lines 244-246.
LoadModelEntryNoReuse(r, f) ==
    IF ~llama THEN LoadRaised(r, "NotInitialized")
    ELSE IF ~existsSync(f) THEN LoadRaised(r, "ArtifactMissing")
    ELSE Outcome([r EXCEPT !.pc = "awaitLoadModel"], NoReturn)

\* The synchronous part of loadModel, up to its first await.
LoadModelEntry(r, f) ==
    IF ~llama THEN LoadRaised(r, "NotInitialized")
    ELSE IF Has(r.name) THEN LoadReturned(r, Get(r.name))
    ELSE IF ~existsSync(f) THEN LoadRaised(r, "ArtifactMissing")
    ELSE Outcome([r EXCEPT !.pc = "awaitLoadModel"], NoReturn)

\* The pair loadModel builds from its locals once createContext has resolved.
NewPair(r) == [model |-> r.model, context |-> r.model]

InitModels ==
    /\ llama = FALSE
    /\ enabled = [i \in Ids |-> FALSE]
    /\ loadedModels = MapClear
    /\ loadedPos = PosClear
    /\ nextHandle = 1
    /\ disposedModels = {}
    /\ disposedContexts = {}
    /\ evicted = {}
    /\ unhandled = FALSE
    /\ threads = EmptyBag
    /\ currentChatSession = NoSession
    /\ history = {}

InitNoDisplay ==
    /\ comparison = NoComparison
    /\ stream = NoStream
    /\ sequences = NoSequences
    /\ custom = NoCustom
    /\ chatMenu = NoChatMenu

Init ==
    /\ InitModels
    /\ dl = NoDownload
    /\ tempFile = NoFile
    /\ destFile = NoFile
    /\ transfers = <<>>
    /\ InitNoDisplay

\* initialize() (lines 204-206)
Initialize ==
    /\ ~llama
    /\ llama' = TRUE
    /\ UNCHANGED <<enabled, loadedModels, loadedPos, nextHandle, disposedModels,
                   disposedContexts, evicted, unhandled, threads,
                   currentChatSession, history>>
    /\ UNCHANGED <<dlvars, uivars>>

\* A caller calls loadModel(models[name]) while the file is in state f.
CallLoadModel(name, f) ==
    /\ CanCall
    /\ threads' = Replace(Idle, LoadModelEntry(Start("loadModel", name), f).th)
    /\ UNCHANGED <<llama, enabled, loadedModels, loadedPos, nextHandle,
                   disposedModels, disposedContexts, evicted, unhandled,
                   currentChatSession, history>>
    /\ UNCHANGED <<dlvars, uivars>>

\* this.llama.loadModel(...) settles (lines 254-257).
LoadModelSettled(r) ==
    /\ r.pc = "awaitLoadModel"
    /\ \/ /\ nextHandle <= MaxLoads
          /\ nextHandle' = nextHandle + 1
          /\ threads' = Replace(r, [r EXCEPT !.pc = "awaitCreateContext",
                                            !.model = nextHandle])
       \/ /\ threads' = Replace(r, LoadRaised(r, "LoadError").th)
          /\ UNCHANGED nextHandle
    /\ UNCHANGED <<llama, enabled, loadedModels, loadedPos, disposedModels,
                   disposedContexts, evicted, unhandled, currentChatSession,
                   history>>
    /\ UNCHANGED <<dlvars, uivars>>

\* model.createContext(...) settles; on success the pair is registered and
\* returned (lines 259-265).
CreateContextSettled(r) ==
    /\ r.pc = "awaitCreateContext"
    /\ \/ /\ loadedModels' = MapSet(r.name, NewPair(r))
          /\ loadedPos' = SetPos(r.name, NewPair(r))
          /\ threads' = Replace(r, LoadReturned(r, NewPair(r)).th)
       \/ /\ threads' = Replace(r, LoadRaised(r, "LoadError").th)
          /\ UNCHANGED <<loadedModels, loadedPos>>
    /\ UNCHANGED <<llama, enabled, nextHandle, disposedModels, disposedContexts,
                   evicted, unhandled, currentChatSession, history>>
    /\ UNCHANGED <<dlvars, uivars>>

\* ------------------------------------------ setModelEnabled (lines 209-221)
\* The test of line 214 without `this.loadedModels.has(modelName)`.
ShouldEvictAlways(name, en) == ~en

ShouldEvict(name, en) == ~en /\ Has(name)

\* The promises of the two dispose() calls are dropped: rej says that one of
\* them rejects.
SetModelEnabled(name, en, rej) ==
    /\ enabled' = IF name \in Ids THEN [enabled EXCEPT ![name] = en] ELSE enabled
    /\ IF name \in Ids /\ ShouldEvict(name, en)
       THEN /\ disposedContexts' = disposedContexts \cup {Get(name).context}
            /\ disposedModels' = disposedModels \cup {Get(name).model}
            /\ evicted' = evicted \cup {<<name, Get(name).model>>}
            /\ loadedModels' = MapDelete(name)
            /\ loadedPos' = PosDelete(name)
            /\ unhandled' = (unhandled \/ rej)
            /\ history' = ClearHistory(Get(name).context)
       ELSE /\ ~rej
            /\ UNCHANGED <<disposedContexts, disposedModels, evicted, loadedModels,
                           loadedPos, unhandled, history>>
    /\ UNCHANGED <<llama, nextHandle, threads, currentChatSession>>
    /\ UNCHANGED <<dlvars, uivars>>

\* ---------------------------------------------- inferSingle (lines 298-348)
\* A caller calls inferSingle(name, prompt): an unknown name throws before the
\* try block, otherwise the call runs loadModel up to its first await.
InferSingleEntry(r, f) ==
    IF r.name \in Ids THEN LoadModelEntry(r, f)
    ELSE Outcome(Idle, Raise("UnknownModel"))

CallInferSingle(name, f) ==
    /\ CanCall
    /\ threads' = Replace(Idle, InferSingleEntry(Start("inferSingle", name), f).th)
    /\ UNCHANGED <<llama, enabled, loadedModels, loadedPos, nextHandle,
                   disposedModels, disposedContexts, evicted, unhandled,
                   currentChatSession, history>>
    /\ UNCHANGED <<dlvars, uivars>>

\* What the caller of inferSingle gets when the exchange fails: the catch of
\* lines 344-347 logs and rethrows; inferParallel's callback catches (lines
\* 412-418); in the tool the error ends the menu loop.
InferRaised(r, err) ==
    CASE r.op = "inferSingle" -> Outcome(Idle, Raise(err))
      [] r.op \in {"chat", "runSingle"} -> Outcome(CrashedFrom(r, err), Raise(err))
      [] r.op \in {"parInfer", "parFresh"} ->
            Outcome(Settled(r, "error", err), NoReturn)
      [] r.op \in SeqOps -> Outcome(SeqSettled(r, "error", err), NoReturn)

InferReturned(r) ==
    CASE r.op \in {"inferSingle", "runSingle"} ->
            Outcome(Idle, [NoReturn EXCEPT !.out = "result"])
      [] r.op \in {"parInfer", "parFresh"} ->
            Outcome(Settled(r, "result", "none"), NoReturn)
      [] r.op \in SeqOps -> Outcome(SeqSettled(r, "result", "none"), NoReturn)

\* After `await this.loadModel(...)`: context.getSequence() and the session
\* (lines 311-317); the prompt is then awaited.
\* In the tool's initializeChatSession (part_001 lines 536-549) the session is
\* stored and the chat loop waits for input.
GetSequence(r) ==
    IF r.context \in disposedContexts THEN InferRaised(r, "InferenceFailure")
    ELSE IF r.op = "chat" THEN Outcome([r EXCEPT !.pc = "chatLoop"], NoReturn)
    ELSE Outcome([r EXCEPT !.pc = "awaitPrompt"], NoReturn)

AfterLoad(r) ==
    /\ r.pc = "afterLoad"
    /\ threads' = Replace(r, GetSequence(r).th)
    /\ currentChatSession' =
          IF GetSequence(r).th.pc = "chatLoop"
          THEN [context |-> r.context, modelName |-> r.name]
          ELSE currentChatSession
    /\ UNCHANGED <<llama, enabled, loadedModels, loadedPos, nextHandle,
                   disposedModels, disposedContexts, evicted, unhandled,
                   history>>
    /\ UNCHANGED <<dlvars, uivars>>

\* session.prompt(...) settles (lines 321-343): on success the history is
\* cleared and the result returned; on failure the error is rethrown.
PromptSettled(r) ==
    /\ r.pc = "awaitPrompt"
    /\ \E ok \in BOOLEAN :
          /\ threads' = Replace(r, IF ok THEN InferReturned(r).th
                                   ELSE InferRaised(r, "InferenceFailure").th)
          /\ history' = IF ok THEN ClearHistory(r.context)
                        ELSE KeepHistory(r.context)
    /\ UNCHANGED <<llama, enabled, loadedModels, loadedPos, nextHandle,
                   disposedModels, disposedContexts, evicted, unhandled,
                   currentChatSession>>
    /\ UNCHANGED <<dlvars, uivars>>

\* -------------------------------------------------- dispose (lines 526-543)
\* The for-of loop of call r, now at record c, up to the next await: with an
\* entry left, its context's dispose() is invoked and awaited; with none left,
\* the Map is cleared and dispose() returns.
DisposeLoop(r, c) ==
    IF KeysAfter(c.cursor) = {}
    THEN /\ loadedModels' = MapClear
         /\ loadedPos' = PosClear
         /\ threads' = Replace(r, Idle)
         /\ UNCHANGED <<disposedContexts, history>>
    ELSE LET n == NextKey(c.cursor)
         IN /\ disposedContexts' = disposedContexts \cup {Get(n).context}
            /\ history' = ClearHistory(Get(n).context)
            /\ threads' = Replace(r,
                   [c EXCEPT !.pc = "awaitContextDispose", !.name = n,
                             !.model = Get(n).model, !.context = Get(n).context,
                             !.cursor = loadedPos[n]])
            /\ UNCHANGED <<loadedModels, loadedPos>>

\* The model handles registered when dispose() is called.
Registered == {Get(n).model : n \in KeysAfter(0)}

\* A caller calls dispose(); one such call is in progress at a time.
CallDispose ==
    /\ CanCall
    /\ \A c \in Calls : c.op # "dispose"
    /\ DisposeLoop(Idle, [Start("dispose", 0) EXCEPT !.snap = Registered])
    /\ UNCHANGED <<llama, enabled, nextHandle, disposedModels, evicted, unhandled,
                   currentChatSession>>
    /\ UNCHANGED <<dlvars, uivars>>

\* `await context.dispose()` settles: resolved, model.dispose() is invoked and
\* awaited; rejected, the catch logs and the loop goes on.
ContextDisposeSettled(r) ==
    /\ r.pc = "awaitContextDispose"
    /\ \/ /\ disposedModels' = disposedModels \cup {r.model}
          /\ threads' = Replace(r, [r EXCEPT !.pc = "awaitModelDispose"])
          /\ UNCHANGED <<loadedModels, loadedPos, disposedContexts, history>>
       \/ /\ DisposeLoop(r, r)
          /\ UNCHANGED disposedModels
    /\ UNCHANGED <<llama, enabled, nextHandle, evicted, unhandled,
                   currentChatSession>>
    /\ UNCHANGED <<dlvars, uivars>>

\* `await model.dispose()` settles: resolved or rejected (and caught), the loop
\* goes on.
ModelDisposeSettled(r) ==
    /\ r.pc = "awaitModelDispose"
    /\ DisposeLoop(r, r)
    /\ UNCHANGED <<llama, enabled, nextHandle, disposedModels, evicted, unhandled,
                   currentChatSession>>
    /\ UNCHANGED <<dlvars, uivars>>

\* ------------------------------------------- inferParallel (lines 351-422)
\* The pre-load callback of one enabled model up to its first await.
ParLoadEntry(i, f) == LoadModelEntry(Start("parLoad", i), f).th

\* inferParallel(prompt) up to `await Promise.all(loadPromises)`: the call
\* itself and one pre-load callback per enabled model, each reading its file
\* as files[i] says.
InferParallelEntry(op, en, files) ==
    SetToBag({[Start(op, 0) EXCEPT !.pc = "awaitPreload",
                                   !.snap = {j \in Ids : en[j]}]}
             \cup {ParLoadEntry(i, files[i]) : i \in {j \in Ids : en[j]}})

\* The callbacks of inferParallel in progress or settled.
ParCalls == {c \in Calls : c.op \in {"parLoad", "parInfer", "parFresh"}}

\* inferParallel without `await Promise.all(loadPromises)` (line 367).
ParQuietUnawaited == TRUE

\* Promise.all has nothing left to wait for.
ParQuiet == \A c \in ParCalls : c.pc = "done"

\* The calls other than inferParallel call r and its callbacks.
Others(r) == [c \in Calls \ (ParCalls \cup {r}) |-> threads[c]]

\* The inference callback without the test of line 379: inferSingle is called
\* whether the model is registered or not.
ParInferEntryUntested(i, f) ==
    IF ~existsSync(f)
    THEN Settled(Start("parInfer", i), "error", "ArtifactMissing")
    ELSE InferSingleEntry(Start("parInfer", i), f).th

\* The inference callback of one model up to its first await (lines 370-384).
ParInferEntry(i, f) ==
    IF ~existsSync(f)
    THEN Settled(Start("parInfer", i), "error", "ArtifactMissing")
    ELSE IF Has(i) THEN InferSingleEntry(Start("parInfer", i), f).th
    ELSE IF ~llama
    THEN Settled(Start("parFresh", i), "error", "NotInitialized")
    ELSE [Start("parFresh", i) EXCEPT !.pc = "awaitFreshLoadModel"]

\* Every pre-load callback has settled: the inference callbacks start.
PreloadSettled(r, files) ==
    /\ r.pc = "awaitPreload"
    /\ ParQuiet
    /\ threads' = Others(r) (+)
          SetToBag({[r EXCEPT !.pc = "awaitInference"]}
                   \cup {ParInferEntry(c.name, files[c.name]) : c \in ParCalls})
    /\ UNCHANGED <<llama, enabled, loadedModels, loadedPos, nextHandle,
                   disposedModels, disposedContexts, evicted, unhandled,
                   currentChatSession, history>>
    /\ UNCHANGED <<dlvars, uivars>>

\* The fresh instance's this.llama.loadModel(...) settles (lines 384-387).
FreshLoadModelSettled(r) ==
    /\ r.pc = "awaitFreshLoadModel"
    /\ \/ /\ nextHandle <= MaxLoads
          /\ nextHandle' = nextHandle + 1
          /\ threads' = Replace(r, [r EXCEPT !.pc = "awaitFreshCreateContext",
                                            !.model = nextHandle])
       \/ /\ threads' = Replace(r, InferRaised(r, "LoadError").th)
          /\ UNCHANGED nextHandle
    /\ UNCHANGED <<llama, enabled, loadedModels, loadedPos, disposedModels,
                   disposedContexts, evicted, unhandled, currentChatSession,
                   history>>
    /\ UNCHANGED <<dlvars, uivars>>

\* The fresh instance's createContext settles; the prompt is awaited (lines
\* 389-400). The pair is not registered.
FreshCreateContextSettled(r) ==
    /\ r.pc = "awaitFreshCreateContext"
    /\ \/ threads' = Replace(r, [r EXCEPT !.pc = "awaitFreshPrompt",
                                         !.context = r.model])
       \/ threads' = Replace(r, InferRaised(r, "LoadError").th)
    /\ UNCHANGED <<llama, enabled, loadedModels, loadedPos, nextHandle,
                   disposedModels, disposedContexts, evicted, unhandled,
                   currentChatSession, history>>
    /\ UNCHANGED <<dlvars, uivars>>

\* The fresh instance's prompt settles: on success context.dispose() is
\* invoked and awaited (lines 400-404).
FreshPromptSettled(r) ==
    /\ r.pc = "awaitFreshPrompt"
    /\ \/ /\ disposedContexts' = disposedContexts \cup {r.context}
          /\ threads' = Replace(r, [r EXCEPT !.pc = "awaitFreshContextDispose"])
       \/ /\ threads' = Replace(r, InferRaised(r, "InferenceFailure").th)
          /\ UNCHANGED disposedContexts
    /\ UNCHANGED <<llama, enabled, loadedModels, loadedPos, nextHandle,
                   disposedModels, evicted, unhandled, currentChatSession,
                   history>>
    /\ UNCHANGED <<dlvars, uivars>>

\* `await context.dispose()` of the fresh instance settles (lines 404-405).
FreshContextDisposeSettled(r) ==
    /\ r.pc = "awaitFreshContextDispose"
    /\ \/ /\ disposedModels' = disposedModels \cup {r.model}
          /\ threads' = Replace(r, [r EXCEPT !.pc = "awaitFreshModelDispose"])
       \/ /\ threads' = Replace(r, InferRaised(r, "DisposeError").th)
          /\ UNCHANGED disposedModels
    /\ UNCHANGED <<llama, enabled, loadedModels, loadedPos, nextHandle,
                   disposedContexts, evicted, unhandled, currentChatSession,
                   history>>
    /\ UNCHANGED <<dlvars, uivars>>

\* `await llamaModel.dispose()` of the fresh instance settles (lines 405-418).
FreshModelDisposeSettled(r) ==
    /\ r.pc = "awaitFreshModelDispose"
    /\ \E ok \in BOOLEAN :
          threads' = Replace(r, IF ok THEN InferReturned(r).th
                                ELSE InferRaised(r, "DisposeError").th)
    /\ UNCHANGED <<llama, enabled, loadedModels, loadedPos, nextHandle,
                   disposedModels, disposedContexts, evicted, unhandled,
                   currentChatSession, history>>
    /\ UNCHANGED <<dlvars, uivars>>

\* ------------------------------------------ inferSequential (lines 425-448)
\* Date.now() - startTime of an exchange that succeeded (line 342).
Elapsed == 1

\* The InferenceResult of one model: inferSingle's on success, the catch
\* block's 'Error: <message>' with duration 0 otherwise (lines 413-417 and
\* 438-444).
InferenceResult(name, out, err) ==
    [model |-> name,
     response |-> IF out = "error" THEN <<"Error: ", err>> ELSE <<"text">>,
     duration |-> IF out = "error" THEN 0 ELSE Elapsed]

\* this.models.filter(m => m.enabled) (line 426): the enabled names in catalog
\* order.
EnabledModels(snap) ==
    CHOOSE q \in [1..Cardinality(snap) -> snap] :
        \A i \in 1..Cardinality(snap), j \in 1..Cardinality(snap) :
            i < j => q[i] < q[j]

\* The enabled models the for-of loop has yet to reach after model cur, and
\* the first of them in catalog order.
SeqNames(snap, cur) == {i \in snap : i > cur}

SeqNextNameLast(snap, cur) ==
    CHOOSE i \in SeqNames(snap, cur) : \A j \in SeqNames(snap, cur) : j <= i

SeqNextName(snap, cur) ==
    CHOOSE i \in SeqNames(snap, cur) : \A j \in SeqNames(snap, cur) : i <= j

\* The loop of inferSequential from the top of an iteration to its next
\* await: inferSingle(model.name) of the next enabled model up to its first
\* await, or the return of the results.
InferSequentialStep(r, f) ==
    IF SeqNames(r.snap, r.name) = {}
    THEN [r EXCEPT !.pc = "seqReturned", !.name = 0]
    ELSE InferSingleEntry([r EXCEPT !.pc = "idle",
                                    !.name = SeqNextName(r.snap, r.name)], f).th

\* inferSequential(prompt) up to its first await, with the models enabled in
\* en.
InferSequentialEntry(op, en, f) ==
    InferSequentialStep([Start(op, 0) EXCEPT !.snap = {j \in Ids : en[j]}], f)

\* The loop resumes after `await this.inferSingle(...)`: the result, or the
\* error result of the catch block, is pushed and the next iteration starts.
SeqResume(r, f) ==
    /\ r.pc = "seqResume"
    /\ threads' = Replace(r, InferSequentialStep(
          [r EXCEPT !.results = Append(@, InferenceResult(r.name, r.out, r.err)),
                    !.out = "none", !.err = "none"], f))
    /\ UNCHANGED <<llama, enabled, loadedModels, loadedPos, nextHandle,
                   disposedModels, disposedContexts, evicted, unhandled,
                   currentChatSession, history>>
    /\ UNCHANGED <<dlvars, uivars>>

\* A caller of the class calls inferParallel(prompt) or inferSequential(prompt)
\* with no other call in progress.
CallInferParallel(files) ==
    /\ threads = EmptyBag
    /\ threads' = InferParallelEntry("inferParallel", enabled, files)
    /\ UNCHANGED <<llama, enabled, loadedModels, loadedPos, nextHandle,
                   disposedModels, disposedContexts, evicted, unhandled,
                   currentChatSession, history>>
    /\ UNCHANGED <<dlvars, uivars>>

CallInferSequential(f) ==
    /\ threads = EmptyBag
    /\ threads' = Replace(Idle, InferSequentialEntry("inferSequential", enabled, f))
    /\ UNCHANGED <<llama, enabled, loadedModels, loadedPos, nextHandle,
                   disposedModels, disposedContexts, evicted, unhandled,
                   currentChatSession, history>>
    /\ UNCHANGED <<dlvars, uivars>>

\* What Promise.all(promises) resolves to (lines 407-421), once every
\* callback has settled.
ParallelResults == {InferenceResult(c.name, c.out, c.err) : c \in ParCalls}

\* The flags after the tool's reset (part_001 lines 295-298): written
\* directly, setModelEnabled is not called.
DefaultName == 1                 \* 'qwen2.5:0.5b', the first catalog entry

ResetEnabled == [i \in Ids |-> i = DefaultName]

\* Every inference callback has settled: inferParallel returns the results;
\* the tool's runParallel then displays them and resets the flags.
InferenceSettled(r) ==
    /\ r.pc = "awaitInference"
    /\ ParQuiet
    /\ threads' = Others(r)
    /\ enabled' = IF r.op = "runParallel" THEN ResetEnabled ELSE enabled
    /\ UNCHANGED <<llama, loadedModels, loadedPos, nextHandle, disposedModels,
                   disposedContexts, evicted, unhandled, currentChatSession,
                   history>>
    /\ UNCHANGED <<dlvars, uivars>>

\* ------------------------------ the interactive tool (src/unnamed/part_001)
\* The tool is one flow of control: a menu is shown when start() has
\* initialized the engine and the option chosen before has returned.
ToolReady == llama /\ threads = EmptyBag

\* The process after process.exit(code) in main.
Exited(code) == [Idle EXCEPT !.op = "main", !.pc = "exited", !.out = code]

\* main (part_001 lines 693-726): with a command-line argument that ends in
\* '.gguf' the process exits, with code 0 when models/<basename> exists and
\* with code 1 after two messages otherwise; with any other argument or none,
\* start() initializes the engine and shows the menu.
Main(arg, targetExists) ==
    /\ ~llama
    /\ threads = EmptyBag
    /\ IF arg = "gguf"
       THEN /\ threads' = SetToBag({Exited(IF targetExists THEN "exit0"
                                           ELSE "exit1")})
            /\ UNCHANGED <<llama, enabled, loadedModels, loadedPos, nextHandle,
                           disposedModels, disposedContexts, evicted, unhandled,
                           currentChatSession, history>>
            /\ UNCHANGED <<dlvars, uivars>>
       ELSE ~targetExists /\ Initialize

\* getAvailableModels (lines 229-238): the names whose file exists.
getAvailableModels(files) == {i \in Ids : existsSync(files[i])}

EnableAll(avail) == [i \in Ids |-> enabled[i] \/ i \in avail]

\* Menu option 3, runParallel (part_001 lines 269-299) up to the await of
\* inferParallel: avail is what getAvailableModels returned, files what the
\* pre-load reads after the prompt was typed.
RunParallel(avail, files) ==
    /\ ToolReady
    /\ \E probe \in [Ids -> FileStates] : avail = getAvailableModels(probe)
    /\ avail # {}
    /\ enabled' = EnableAll(avail)
    /\ threads' = InferParallelEntry("runParallel", EnableAll(avail), files)
    /\ UNCHANGED <<llama, loadedModels, loadedPos, nextHandle, disposedModels,
                   disposedContexts, evicted, unhandled, currentChatSession,
                   history>>
    /\ UNCHANGED <<dlvars, uivars>>

\* Menu option 4, runSequential (part_001 lines 301-328) up to the await of
\* inferSequential.
RunSequential(avail, f) ==
    /\ ToolReady
    /\ \E probe \in [Ids -> FileStates] : avail = getAvailableModels(probe)
    /\ avail # {}
    /\ enabled' = EnableAll(avail)
    /\ threads' = Replace(Idle, InferSequentialEntry("runSequential", EnableAll(avail), f))
    /\ UNCHANGED <<llama, loadedModels, loadedPos, nextHandle, disposedModels,
                   disposedContexts, evicted, unhandled, currentChatSession,
                   history>>
    /\ UNCHANGED <<dlvars, uivars>>

\* inferSequential has returned its results: runSequential resets the flags
\* (part_001 lines 322-327).
SequentialReturned(r) ==
    /\ r.pc = "seqReturned"
    /\ enabled' = IF r.op = "runSequential" THEN ResetEnabled ELSE enabled
    /\ threads' = Replace(r, Idle)
    /\ UNCHANGED <<llama, loadedModels, loadedPos, nextHandle, disposedModels,
                   disposedContexts, evicted, unhandled, currentChatSession,
                   history>>
    /\ UNCHANGED <<dlvars, uivars>>

\* Menu option 5, runSingle (part_001 lines 330-337).
RunSingle(name, f) ==
    /\ ToolReady
    /\ threads' = Replace(Idle,
          IF name \in Ids THEN InferSingleEntry(Start("runSingle", name), f).th
          ELSE CrashedFrom(Start("runSingle", name), "UnknownModel"))
    /\ UNCHANGED <<llama, enabled, loadedModels, loadedPos, nextHandle,
                   disposedModels, disposedContexts, evicted, unhandled,
                   currentChatSession, history>>
    /\ UNCHANGED <<dlvars, uivars>>

\* chatModeWithModel(name) up to the first await of initializeChatSession
\* (part_001 lines 362-380 and 527-536).
InitializeChatSessionEntry(name, f) ==
    IF name \in Ids THEN LoadModelEntry(Start("chat", name), f).th
    ELSE CrashedFrom(Start("chat", name), "UnknownModel")

ChatModeWithModel(name, f) ==
    /\ ToolReady
    /\ threads' = Replace(Idle, InitializeChatSessionEntry(name, f))
    /\ UNCHANGED <<llama, enabled, loadedModels, loadedPos, nextHandle,
                   disposedModels, disposedContexts, evicted, unhandled,
                   currentChatSession, history>>
    /\ UNCHANGED <<dlvars, uivars>>

\* /exit or /model typed in the chat loop (part_001 lines 389-395, 411-419):
\* the session's context.dispose() is invoked and awaited. The registry is not
\* touched.
ChatLeave(r) ==
    /\ r.pc = "chatLoop"
    /\ disposedContexts' = disposedContexts \cup {currentChatSession.context}
    /\ threads' = Replace(r, [r EXCEPT !.pc = "awaitChatDispose"])
    /\ history' = ClearHistory(currentChatSession.context)
    /\ UNCHANGED <<llama, enabled, loadedModels, loadedPos, nextHandle,
                   disposedModels, evicted, unhandled, currentChatSession>>
    /\ UNCHANGED <<dlvars, uivars>>

\* That dispose() settles: resolved, the session is dropped and the tool goes
\* back to a menu; rejected, the error leaves the chat loop.
ChatDisposeSettled(r) ==
    /\ r.pc = "awaitChatDispose"
    /\ \/ /\ currentChatSession' = NoSession
          /\ threads' = Replace(r, Idle)
       \/ /\ threads' = Replace(r, CrashedFrom(r, "DisposeError"))
          /\ UNCHANGED currentChatSession
    /\ UNCHANGED <<llama, enabled, loadedModels, loadedPos, nextHandle,
                   disposedModels, disposedContexts, evicted, unhandled,
                   history>>
    /\ UNCHANGED <<dlvars, uivars>>

\* Menu option 7 (part_001 lines 93-98): dispose() and exit.
ToolDispose == ToolReady /\ CallDispose

\* --------------------------- downloadModel (src/src/download-models.ts)
maxAttempts == 3

\* model.expectedSizeBytes of a catalog entry that declares one, and the sizes
\* a transfer may leave at the temp path: nothing written, within 1% of the
\* declared size, and outside it.
ExpectedSizeBytes == 100

Sizes == {0, 101, 102}

\* The sizes of a model file found in the models directory: empty, within 1%
\* of the declared size, within 10% of it, and further off.
FoundSizes == {0, 101, 102, 111}

Locators == {"primary", "fallback"}

Files == {NoFile} \cup [size : Sizes, from : Locators \cup {"previous"}]

\* What the three transfer helpers can end with: the exit code of wget or
\* curl, the status or the error event of https.get.
Endings ==
    [tool : {"wget"}, code : {"0", "4", "6", "8"}]
    \cup [tool : {"curl"}, code : {"0", "7", "22"}]
    \cup [tool : {"node"}, code : {"200", "401", "403", "404", "error"}]

\* The message of the error the helper rejects with, as the pieces it is made
\* of; <<>> when the helper resolves (lines 429-441, 458-468, 488-495).
TransferError(e) ==
    CASE e.tool = "wget" /\ e.code = "0" -> <<>>
      [] e.tool = "wget" /\ e.code = "6" ->
            <<"401", " Unauthorized - Authentication required">>
      [] e.tool = "wget" /\ e.code = "8" ->
            <<"404", " Not Found - File not available">>
      [] e.tool = "wget" -> <<"wget exited with code ", e.code>>
      [] e.tool = "curl" /\ e.code = "0" -> <<>>
      [] e.tool = "curl" /\ e.code = "22" ->
            <<"401", " Unauthorized - Authentication required">>
      [] e.tool = "curl" -> <<"curl exited with code ", e.code>>
      [] e.tool = "node" /\ e.code = "200" -> <<>>
      [] e.tool = "node" /\ e.code \in {"401", "403"} ->
            <<e.code, " - Authentication required">>
      [] e.tool = "node" /\ e.code = "error" -> <<"socket hang up">>
      [] OTHER -> <<"HTTP ", e.code>>

\* The HTTP status the server answered with when a helper ended with e,
\* "none" when no answer came: wget exits with 6 when authentication is
\* required and with 8 on any other error response, `curl --fail` exits with
\* 22 on every status of 400 and above ("Fail on HTTP errors", line 453), and
\* https.get hands over the status itself.
ServerAnswers(e) ==
    CASE e.tool = "wget" /\ e.code = "0" -> {"200"}
      [] e.tool = "wget" /\ e.code = "6" -> {"401"}
      [] e.tool = "wget" /\ e.code = "8" -> {"403", "404", "500"}
      [] e.tool = "curl" /\ e.code = "0" -> {"200"}
      [] e.tool = "curl" /\ e.code = "22" -> {"401", "403", "404", "500"}
      [] e.tool = "node" /\ e.code # "error" -> {e.code}
      [] OTHER -> {"none"}

\* downloadError.message.includes('401') || ...includes('403') (line 346)
IsAuthError(msg) == \E i \in 1..Len(msg) : msg[i] \in {"401", "403"}

\* How a transfer ended, as the downloader tells it.
Ended(msg) ==
    IF msg = <<>> THEN "ok" ELSE IF IsAuthError(msg) THEN "auth" ELSE "other"

\* Math.abs(size - expectedSize) > expectedSize * 0.01 (line 378)
OutsideTolerance(size, expectedSize) ==
    LET d == IF size >= expectedSize THEN size - expectedSize
             ELSE expectedSize - size
    IN expectedSize # 0 /\ 100 * d > expectedSize

\* The top of the while loop up to the await of the transfer (lines 318-341):
\* a temp file left behind is removed, the locator is the primary again.
LoopTop(d) ==
    /\ tempFile' = NoFile
    /\ dl' = [d EXCEPT !.pc = "transfer", !.usingFallback = FALSE, !.msg = <<>>,
                       !.wget = "unasked", !.curl = "unasked", !.ran = <<>>]

\* Math.abs(stats.size - model.expectedSizeBytes) >
\* model.expectedSizeBytes * 0.1 (line 263)
FarOff(size, expectedSize) ==
    LET d == IF size >= expectedSize THEN size - expectedSize
             ELSE expectedSize - size
    IN 10 * d > expectedSize

\* displayModel's status mark for a model file (lines 255-269): a check mark
\* for a file that exists, replaced by a warning when a size is declared and
\* the file is empty or more than 10% off.
displayModel(file, expectedSize) ==
    IF file = NoFile THEN "blank"
    ELSE IF expectedSize # 0 /\ (file.size = 0 \/ FarOff(file.size, expectedSize))
    THEN "warning"
    ELSE "check"

\* showMenu lists the model with its status mark and asks for a selection
\* (lines 554-596).
ShowMenu ==
    /\ dl.pc = "start"
    /\ dl' = [dl EXCEPT !.pc = "menu",
                        !.status = displayModel(destFile, dl.expectedSize)]
    /\ UNCHANGED <<tempFile, destFile, transfers>>
    /\ UNCHANGED <<mmvars, uivars>>

\* The file at filePath counts as downloaded already (line 280).
AlreadyDownloaded == destFile # NoFile

\* handleModelSelection (lines 271-308) for the model selected: a file that
\* exists is reported as downloaded and kept unless the user asks to download
\* again; otherwise downloadModel is called if the user agrees, or the manual
\* commands are printed.
HandleModelSelection(overwrite, download) ==
    /\ dl.pc = "menu"
    /\ IF AlreadyDownloaded /\ ~overwrite
       THEN /\ ~download
            /\ dl' = [dl EXCEPT !.pc = "alreadyDownloaded"]
            /\ UNCHANGED tempFile
       ELSE IF download
       THEN LoopTop([dl EXCEPT !.existed = (destFile # NoFile)])
       ELSE /\ dl' = [dl EXCEPT !.pc = "manual"]
            /\ UNCHANGED tempFile
    /\ UNCHANGED <<destFile, transfers>>
    /\ UNCHANGED <<mmvars, uivars>>

\* The locator the transfer in progress uses (lines 325, 348).
DownloadUrl == IF dl.usingFallback THEN "fallback" ELSE "primary"

\* What checkCommand resolved with (lines 411-417).
Answer(available) == IF available THEN "yes" ELSE "no"

\* A selection that asks for curl first.
StrategyCurlFirst(wgetAvailable, curlAvailable) ==
    IF curlAvailable THEN "curl"
    ELSE IF wgetAvailable THEN "wget"
    ELSE "node"

\* The helper a transfer runs (lines 329-341, 352-362): wget if
\* checkCommand('wget') says so, else curl if checkCommand('curl') says so,
\* else https.get.
Strategy(wgetAvailable, curlAvailable) ==
    IF wgetAvailable THEN "wget"
    ELSE IF curlAvailable THEN "curl"
    ELSE "node"

\* The commands are looked for and wget, curl or https.get runs and ends: it
\* leaves file at the temp path and the helper's promise settles with the
\* error of that ending. curl is looked for only when wget is not there.
TransferExits(e, file) ==
    /\ dl.pc \in {"transfer", "fallback"}
    /\ file = NoFile \/ file.from = DownloadUrl
    /\ tempFile' = file
    /\ transfers' = Append(transfers, [url |-> DownloadUrl,
                                       res |-> Ended(TransferError(e))])
    /\ \E wgetAvailable \in BOOLEAN, curlAvailable \in BOOLEAN :
          /\ e.tool = Strategy(wgetAvailable, curlAvailable)
          /\ dl' = [dl EXCEPT
                      !.pc = IF dl.pc = "transfer" THEN "transferExit"
                             ELSE "fallbackExit",
                      !.msg = TransferError(e),
                      !.wget = Answer(wgetAvailable),
                      !.curl = IF wgetAvailable THEN "unasked"
                               ELSE Answer(curlAvailable),
                      !.ran = Append(@, e.tool)]
    /\ UNCHANGED destFile
    /\ UNCHANGED <<mmvars, uivars>>

\* The loop goes on after a failed attempt.
RetryAllowedAgain(attempts) == attempts <= maxAttempts

RetryAllowed(attempts) == attempts < maxAttempts

\* The outer catch block without `attempts++`.
AttemptFailedUncounted(err) ==
    /\ tempFile' = NoFile
    /\ dl' = [dl EXCEPT !.pc = "backoff", !.msg = err]
    /\ UNCHANGED destFile

\* The outer catch block (lines 389-405) for the error err: count the
\* attempt, report the error, remove the temp file, then wait two seconds or
\* give up.
AttemptFailed(err) ==
    /\ tempFile' = NoFile
    /\ dl' = IF RetryAllowed(dl.attempts + 1)
             THEN [dl EXCEPT !.attempts = @ + 1, !.pc = "backoff", !.msg = err]
             ELSE [dl EXCEPT !.attempts = @ + 1, !.pc = "returned",
                             !.ret = "false", !.msg = err]
    /\ UNCHANGED destFile

\* The temp file passes the tests of lines 369-376.
VerifiedUnchecked == TRUE

\* The tests with a size outside the tolerance thrown like an empty file.
VerifiedWithinTolerance ==
    /\ tempFile # NoFile /\ tempFile.size # 0
    /\ ~OutsideTolerance(tempFile.size, dl.expectedSize)

Verified == tempFile # NoFile /\ tempFile.size # 0

\* The error of the test that failed (lines 370, 375).
VerifyError ==
    IF tempFile = NoFile THEN <<"Download file not found after completion">>
    ELSE <<"Downloaded file is empty">>

\* Verification and rename (lines 368-388): a missing or empty temp file
\* throws, a size outside the tolerance is reported and accepted, renameSync
\* moves the temp file over the destination or throws.
Verify(renameOk) ==
    IF ~Verified THEN ~renameOk /\ AttemptFailed(VerifyError)
    ELSE IF renameOk
    THEN /\ destFile' = tempFile
         /\ tempFile' = NoFile
         /\ dl' = [dl EXCEPT !.pc = "returned", !.ret = "true"]
    ELSE AttemptFailed(<<"rename failed">>)

\* The await of the primary transfer settles (lines 327-366): an error that
\* reads as an authentication failure starts the transfer from the fallback,
\* if there is one. renameOk matters to the rename only.
TransferSettled(renameOk) ==
    /\ dl.pc = "transferExit"
    /\ IF dl.msg = <<>> THEN Verify(renameOk)
       ELSE IF IsAuthError(dl.msg) /\ dl.fallbackUrl /\ ~dl.usingFallback
       THEN /\ dl' = [dl EXCEPT !.pc = "fallback", !.usingFallback = TRUE,
                                !.msg = <<>>, !.wget = "unasked",
                                !.curl = "unasked", !.ran = <<>>]
            /\ ~renameOk
            /\ UNCHANGED <<tempFile, destFile>>
       ELSE ~renameOk /\ AttemptFailed(dl.msg)
    /\ UNCHANGED transfers
    /\ UNCHANGED <<mmvars, uivars>>

\* The await of the transfer from the fallback settles (lines 351-362).
FallbackSettled(renameOk) ==
    /\ dl.pc = "fallbackExit"
    /\ IF dl.msg = <<>> THEN Verify(renameOk)
       ELSE ~renameOk /\ AttemptFailed(dl.msg)
    /\ UNCHANGED transfers
    /\ UNCHANGED <<mmvars, uivars>>

\* The two seconds have passed (line 400): the loop starts over.
BackoffElapsed ==
    /\ dl.pc = "backoff"
    /\ LoopTop(dl)
    /\ UNCHANGED <<destFile, transfers>>
    /\ UNCHANGED <<mmvars, uivars>>

\* ------------------- the tool's own download menu (part_001 lines 104-677)
\* The message of the error the tool's helper rejects with, <<>> when it
\* resolves (part_001 lines 614-617, 631-634, 656-659, 681).
ToolTransferError(e) ==
    CASE e.code \in {"0", "200"} -> <<>>
      [] e.tool = "wget" -> <<"wget exited with code ", e.code>>
      [] e.tool = "curl" -> <<"curl exited with code ", e.code>>
      [] e.tool = "node" /\ e.code = "error" -> <<"socket hang up">>
      [] OTHER -> <<"HTTP ", e.code>>

\* What can be at filePath when the helper has ended, `before` being what was
\* there when it started. The helpers are given filePath itself as the output
\* (`-O filePath`, `-o filePath`, createWriteStream(filePath)): wget and
\* createWriteStream truncate it when they start, curl when the first data
\* arrives.
WrittenAtPath(e, before) ==
    {f \in Files : f # NoFile /\ f.from = "primary"}
        \cup IF e.tool = "curl" /\ ToolTransferError(e) # <<>> THEN {before}
             ELSE {}

\* downloadModels (part_001 lines 104-266) with a model of the list selected
\* or "0" entered: a file that exists is reported as downloaded and the menu
\* shown again unless the user asks to download again; then downloadModel is
\* called if the user agrees, or the manual commands are printed and the menu
\* shown again.
ToolDownloadModels(back, overwrite, download) ==
    /\ dl.pc = "toolMenu"
    /\ dl' = IF back THEN [dl EXCEPT !.pc = "toolReturned"]
             ELSE IF destFile # NoFile /\ ~overwrite
             THEN [dl EXCEPT !.ret = "kept"]
             ELSE IF download
             THEN [dl EXCEPT !.pc = "toolTransfer", !.ret = "none",
                             !.msg = <<>>, !.existed = (destFile # NoFile),
                             !.wget = "unasked", !.curl = "unasked",
                             !.ran = <<>>]
             ELSE [dl EXCEPT !.ret = "manual"]
    /\ (back \/ (destFile # NoFile /\ ~overwrite)) => ~download
    /\ back => ~overwrite
    /\ UNCHANGED <<tempFile, destFile, transfers>>
    /\ UNCHANGED <<mmvars, uivars>>

\* The tool's downloadModel up to the end of the helper (part_001 lines
\* 571-589): the commands are looked for as in the downloader and wget, curl
\* or https.get runs with filePath as its output.
ToolTransferExits(e, file) ==
    /\ dl.pc = "toolTransfer"
    /\ file \in WrittenAtPath(e, destFile)
    /\ destFile' = file
    /\ \E wgetAvailable \in BOOLEAN, curlAvailable \in BOOLEAN :
          /\ e.tool = Strategy(wgetAvailable, curlAvailable)
          /\ dl' = [dl EXCEPT
                      !.pc = "toolExit",
                      !.msg = ToolTransferError(e),
                      !.wget = Answer(wgetAvailable),
                      !.curl = IF wgetAvailable THEN "unasked"
                               ELSE Answer(curlAvailable),
                      !.ran = Append(@, e.tool)]
    /\ UNCHANGED <<tempFile, transfers>>
    /\ UNCHANGED <<mmvars, uivars>>

\* The await of the helper settles: success is reported, or the catch reports
\* the failure (part_001 lines 590-593); downloadModels shows its menu again
\* (line 265).
ToolDownloadSettled ==
    /\ dl.pc = "toolExit"
    /\ dl' = [dl EXCEPT !.pc = "toolMenu",
                        !.ret = IF dl.msg = <<>> THEN "downloaded"
                                ELSE "failed"]
    /\ UNCHANGED <<tempFile, destFile, transfers>>
    /\ UNCHANGED <<mmvars, uivars>>

\* Menu option 1 of the tool chosen, with the models directory as found.
InitToolDownload ==
    /\ InitModels
    /\ InitNoDisplay
    /\ dl = [NoDownload EXCEPT !.pc = "toolMenu"]
    /\ tempFile = NoFile
    /\ destFile \in {NoFile} \cup [size : FoundSizes, from : {"previous"}]
    /\ transfers = <<>>

NextToolDownload ==
    \/ \E back \in BOOLEAN, overwrite \in BOOLEAN, download \in BOOLEAN :
          ToolDownloadModels(back, overwrite, download)
    \/ \E e \in Endings, file \in Files : ToolTransferExits(e, file)
    \/ ToolDownloadSettled

SpecToolDownload == InitToolDownload /\ [][NextToolDownload]_vars

\* ---------------------------------------------------------- specifications
\* The object under concurrent callers of its methods.
Next ==
    \/ Initialize
    \/ \E name \in Ids, f \in FileStates : CallLoadModel(name, f)
    \/ \E r \in Calls : LoadModelSettled(r)
    \/ \E r \in Calls : CreateContextSettled(r)
    \/ \E name \in Names, en \in BOOLEAN, rej \in BOOLEAN :
          SetModelEnabled(name, en, rej)
    \/ \E name \in Names, f \in FileStates : CallInferSingle(name, f)
    \/ \E r \in Calls : AfterLoad(r)
    \/ \E r \in Calls : PromptSettled(r)
    \/ CallDispose
    \/ \E r \in Calls : ContextDisposeSettled(r)
    \/ \E r \in Calls : ModelDisposeSettled(r)

Spec == Init /\ [][Next]_vars

\* The interactive tool driving the same object.
NextTool ==
    \/ \E arg \in {"none", "gguf", "other"}, targetExists \in BOOLEAN :
          Main(arg, targetExists)
    \/ \E avail \in SUBSET Ids, files \in [Ids -> FileStates] :
          RunParallel(avail, files)
    \/ \E r \in Calls, files \in [Ids -> FileStates] : PreloadSettled(r, files)
    \/ \E r \in Calls : InferenceSettled(r)
    \/ \E avail \in SUBSET Ids, f \in FileStates : RunSequential(avail, f)
    \/ \E r \in Calls, f \in FileStates : SeqResume(r, f)
    \/ \E r \in Calls : SequentialReturned(r)
    \/ \E name \in Names, f \in FileStates : RunSingle(name, f)
    \/ \E name \in Names, f \in FileStates : ChatModeWithModel(name, f)
    \/ \E r \in Calls : ChatLeave(r)
    \/ \E r \in Calls : ChatDisposeSettled(r)
    \/ ToolDispose
    \/ \E r \in Calls : LoadModelSettled(r)
    \/ \E r \in Calls : CreateContextSettled(r)
    \/ \E r \in Calls : AfterLoad(r)
    \/ \E r \in Calls : PromptSettled(r)
    \/ \E r \in Calls : ContextDisposeSettled(r)
    \/ \E r \in Calls : ModelDisposeSettled(r)
    \/ \E r \in Calls : FreshLoadModelSettled(r)
    \/ \E r \in Calls : FreshCreateContextSettled(r)
    \/ \E r \in Calls : FreshPromptSettled(r)
    \/ \E r \in Calls : FreshContextDisposeSettled(r)
    \/ \E r \in Calls : FreshModelDisposeSettled(r)

SpecTool == Init /\ [][NextTool]_vars

\* The batch methods called one at a time on the object, between calls of
\* initialize and setModelEnabled.
NextBatch ==
    \/ Initialize
    \/ \E name \in Names, en \in BOOLEAN, rej \in BOOLEAN :
          SetModelEnabled(name, en, rej)
    \/ \E files \in [Ids -> FileStates] : CallInferParallel(files)
    \/ \E r \in Calls, files \in [Ids -> FileStates] : PreloadSettled(r, files)
    \/ \E r \in Calls : InferenceSettled(r)
    \/ \E f \in FileStates : CallInferSequential(f)
    \/ \E r \in Calls, f \in FileStates : SeqResume(r, f)
    \/ \E r \in Calls : SequentialReturned(r)
    \/ \E r \in Calls : LoadModelSettled(r)
    \/ \E r \in Calls : CreateContextSettled(r)
    \/ \E r \in Calls : AfterLoad(r)
    \/ \E r \in Calls : PromptSettled(r)
    \/ \E r \in Calls : FreshLoadModelSettled(r)
    \/ \E r \in Calls : FreshCreateContextSettled(r)
    \/ \E r \in Calls : FreshPromptSettled(r)
    \/ \E r \in Calls : FreshContextDisposeSettled(r)
    \/ \E r \in Calls : FreshModelDisposeSettled(r)

SpecBatch == Init /\ [][NextBatch]_vars

\* The downloader's menu and one model selection, on a models directory that may hold the model file
\* of an earlier download and a temp file left behind.
InitDownload ==
    /\ InitModels
    /\ InitNoDisplay
    /\ \E fb \in BOOLEAN, exp \in {0, ExpectedSizeBytes} :
          dl = [NoDownload EXCEPT !.fallbackUrl = fb, !.expectedSize = exp]
    /\ tempFile \in {NoFile, PreviousFile}
    /\ destFile \in {NoFile} \cup [size : FoundSizes, from : {"previous"}]
    /\ transfers = <<>>

NextDownload ==
    \/ ShowMenu
    \/ \E overwrite \in BOOLEAN, download \in BOOLEAN :
          HandleModelSelection(overwrite, download)
    \/ \E e \in Endings, file \in Files : TransferExits(e, file)
    \/ \E renameOk \in BOOLEAN : TransferSettled(renameOk)
    \/ \E renameOk \in BOOLEAN : FallbackSettled(renameOk)
    \/ BackoffElapsed

SpecDownload == InitDownload /\ [][NextDownload]_vars

\* The same, with every transfer ending, every timer firing and every
\* question answered.
SpecDownloadFair == SpecDownload /\ WF_vars(NextDownload)

\* ------------------------------------------------------- displayComparison
\* The longest list of results and the largest duration, in milliseconds,
\* handed to displayComparison.
MaxResults == 4

MaxDuration == 2

\* The lists of InferenceResult a caller can pass: one entry per model, in the
\* order the models ran, a failed inference carrying the duration 0.
InferenceResults ==
    UNION {{[i \in 1..n |-> [model |-> i, duration |-> d[i]]] :
               d \in [1..n -> 0..MaxDuration]} : n \in 0..MaxResults}

\* A comparator with the two tests for a failed entry left out.
byDurationOnly(a, b) == a.duration - b.duration

\* The comparator of the compact listing's sort, with the sign convention of
\* Array.prototype.sort: positive puts a after b.
byDuration(a, b) ==
    IF a.duration = 0 THEN 1
    ELSE IF b.duration = 0 THEN -1
    ELSE a.duration - b.duration

\* Array.prototype.sort on a short array is a binary insertion sort that
\* consults nothing but the comparator: the slot of pivot in the sorted prefix
\* work, between the 0-based positions left and right.
RECURSIVE Slot(_, _, _, _)
Slot(work, pivot, left, right) ==
    IF left >= right THEN left
    ELSE LET mid == left + ((right - left) \div 2)
         IN  IF byDuration(pivot, work[mid + 1]) < 0
             THEN Slot(work, pivot, left, mid)
             ELSE Slot(work, pivot, mid + 1, right)

InsertAt(work, k, pivot) ==
    SubSeq(work, 1, k) \o <<pivot>> \o SubSeq(work, k + 1, Len(work))

RECURSIVE SortFrom(_, _)
SortFrom(work, rest) ==
    IF rest = <<>> THEN work
    ELSE SortFrom(InsertAt(work, Slot(work, Head(rest), 0, Len(work)),
                           Head(rest)),
                  Tail(rest))

\* [...results].sort(comparator): a sorted copy, results itself untouched.
sortedResults(results) == SortFrom(<<>>, results)

\* displayComparison(results, compact): the compact listing prints the sorted
\* copy, the detailed listing prints results in the order given.
DisplayComparison(compact) ==
    /\ comparison.pc = "called"
    /\ comparison' = [comparison EXCEPT
                        !.pc = "displayed",
                        !.compact = compact,
                        !.sorted = IF compact
                                   THEN sortedResults(comparison.results)
                                   ELSE comparison.results]
    /\ UNCHANGED <<mmvars, dlvars, stream, sequences, custom,
                   chatMenu>>

\* The comparator of the benchmark's sort (part_001 line 353).
bySpeed(a, b) == a.duration - b.duration

\* results.sort(comparator) of the benchmark: the same insertion, by bySpeed.
RECURSIVE SpeedSlot(_, _, _, _)
SpeedSlot(work, pivot, left, right) ==
    IF left >= right THEN left
    ELSE LET mid == left + ((right - left) \div 2)
         IN  IF bySpeed(pivot, work[mid + 1]) < 0
             THEN SpeedSlot(work, pivot, left, mid)
             ELSE SpeedSlot(work, pivot, mid + 1, right)

RECURSIVE SpeedSortFrom(_, _)
SpeedSortFrom(work, rest) ==
    IF rest = <<>> THEN work
    ELSE SpeedSortFrom(InsertAt(work,
                                SpeedSlot(work, Head(rest), 0, Len(work)),
                                Head(rest)),
                       Tail(rest))

\* One round of benchmark (part_001 lines 348-359): the results of
\* inferParallel are sorted in place and printed as the speed ranking.
Benchmark ==
    /\ comparison.pc = "called"
    /\ comparison' = [comparison EXCEPT
                        !.pc = "ranked",
                        !.sorted = SpeedSortFrom(<<>>, comparison.results)]
    /\ UNCHANGED <<mmvars, dlvars, stream, sequences, custom,
                   chatMenu>>

InitCompare ==
    /\ InitModels
    /\ dl = NoDownload
    /\ tempFile = NoFile
    /\ destFile = NoFile
    /\ transfers = <<>>
    /\ stream = NoStream
    /\ sequences = NoSequences
    /\ custom = NoCustom
    /\ chatMenu = NoChatMenu
    /\ \E results \in InferenceResults :
          comparison = [NoComparison EXCEPT !.pc = "called",
                                            !.results = results]

NextCompare ==
    \/ \E compact \in BOOLEAN : DisplayComparison(compact)
    \/ Benchmark

SpecCompare == InitCompare /\ [][NextCompare]_vars

\* ------------------------------------------- inferSingle, streaming branch
\* The most chunks one prompt delivers.
MaxChunks == 3

\* Pieces of text the session hands to onTextChunk; a string is the sequence
\* of its characters.
TextChunks == {<<>>, <<"a">>, <<"b", "c">>}

\* A callback that puts the chunk in front of what it has.
Prepended(response, chunk) == chunk \o response

\* response += chunk
Accumulated(response, chunk) == response \o chunk

\* The session calls onTextChunk(chunk) while the prompt is evaluated: the
\* chunk is added to response and written to process.stdout.
OnTextChunk(chunk) ==
    /\ stream.pc = "awaitPrompt"
    /\ Len(stream.chunks) < MaxChunks
    /\ stream' = [stream EXCEPT
                    !.chunks = Append(@, chunk),
                    !.response = Accumulated(@, chunk),
                    !.stdout = Append(@, chunk)]
    /\ UNCHANGED <<mmvars, dlvars, comparison, sequences,
                   custom, chatMenu>>

\* session.prompt resolved: inferSingle returns {model, response, duration}.
StreamPromptResolved ==
    /\ stream.pc = "awaitPrompt"
    /\ stream' = [stream EXCEPT !.pc = "returned", !.result = stream.response]
    /\ UNCHANGED <<mmvars, dlvars, comparison, sequences,
                   custom, chatMenu>>

\* session.prompt rejected: the catch logs and rethrows, nothing is returned.
StreamPromptRejected ==
    /\ stream.pc = "awaitPrompt"
    /\ stream' = [stream EXCEPT !.pc = "raised"]
    /\ UNCHANGED <<mmvars, dlvars, comparison, sequences,
                   custom, chatMenu>>

\* inferSingle(model, prompt, true) with `let response = ''` done and
\* session.prompt called.
InitStream ==
    /\ InitModels
    /\ dl = NoDownload
    /\ tempFile = NoFile
    /\ destFile = NoFile
    /\ transfers = <<>>
    /\ comparison = NoComparison
    /\ sequences = NoSequences
    /\ custom = NoCustom
    /\ chatMenu = NoChatMenu
    /\ stream = [NoStream EXCEPT !.pc = "awaitPrompt"]

NextStream ==
    \/ \E chunk \in TextChunks : OnTextChunk(chunk)
    \/ StreamPromptResolved
    \/ StreamPromptRejected

SpecStream == InitStream /\ [][NextStream]_vars

\* --------------------------------------- sequences of a registered context
\* createContext({contextSize: 2048, sequences: 1}) (lines 259-262).
SequenceCapacity == 1

\* loadModel(name) as the tool's single flow sees it with the file present and
\* the engine answering: the registered context, created on the first call.
LoadedContext(name) ==
    IF sequences.context[name] = "none" THEN "live"
    ELSE sequences.context[name]

\* The sequences of name's context the engine has handed out and not got
\* back: those a session refers to and those nothing refers to any more.
Outstanding(name) == sequences.used[name] + sequences.unused[name]

\* context.getSequence() on name's context by the operation `then`: the
\* engine hands out a sequence while fewer than SequenceCapacity are
\* outstanding and throws otherwise, as it does on a disposed context; the
\* error leaves the menu loop.
getSequence(name, then) ==
    IF LoadedContext(name) = "disposed"
    THEN [sequences EXCEPT !.pc = "crashed", !.name = name]
    ELSE IF Outstanding(name) >= SequenceCapacity
    THEN [sequences EXCEPT !.pc = "crashed", !.name = name,
                           !.context[name] = "live", !.refused = TRUE]
    ELSE [sequences EXCEPT !.pc = then, !.name = name,
                           !.context[name] = "live", !.used[name] = @ + 1]

\* runSingle (part_001 lines 330-337): inferSingle loads or reuses the pair
\* and obtains a sequence for its session (lines 311-317); the prompt is then
\* awaited.
SeqRunSingle(name) ==
    /\ sequences.pc = "menu"
    /\ sequences' = getSequence(name, "awaitPrompt")
    /\ UNCHANGED <<mmvars, dlvars, comparison, stream, custom,
                   chatMenu>>

\* The prompt settles (lines 321-347): the history is cleared after a prompt
\* that resolved, and inferSingle returns or rethrows. The sequence is not
\* disposed: nothing refers to it any more.
SeqPromptSettled(ok) ==
    /\ sequences.pc = "awaitPrompt"
    /\ sequences' = [sequences EXCEPT
                       !.pc = IF ok THEN "menu" ELSE "crashed",
                       !.used[sequences.name] = @ - 1,
                       !.unused[sequences.name] = @ + 1]
    /\ UNCHANGED <<mmvars, dlvars, comparison, stream, custom,
                   chatMenu>>

\* The garbage collector runs: the engine takes back the sequences of name's
\* context that nothing refers to.
SeqCollected(name) ==
    /\ sequences.unused[name] > 0
    /\ sequences' = [sequences EXCEPT !.unused[name] = 0]
    /\ UNCHANGED <<mmvars, dlvars, comparison, stream, custom,
                   chatMenu>>

\* chatMode (part_001 lines 442-526) lists the models and asks for a number;
\* a number that is not listed returns to the menu.
SeqChatMode ==
    /\ sequences.pc = "menu"
    /\ sequences' = [sequences EXCEPT !.pc = "chatSelect"]
    /\ UNCHANGED <<mmvars, dlvars, comparison, stream, custom,
                   chatMenu>>

SeqChatInvalid ==
    /\ sequences.pc = "chatSelect"
    /\ sequences' = [sequences EXCEPT !.pc = "menu"]
    /\ UNCHANGED <<mmvars, dlvars, comparison, stream, custom,
                   chatMenu>>

\* chatModeWithModel with the model selected: initializeChatSession loads or
\* reuses the pair and obtains the sequence of the chat session (part_001
\* lines 527-551).
SeqChatInit(name) ==
    /\ sequences.pc = "chatSelect"
    /\ sequences' = getSequence(name, "chatLoop")
    /\ UNCHANGED <<mmvars, dlvars, comparison, stream, custom,
                   chatMenu>>

\* /clear (part_001 lines 396-410): getSequence() is called on the chat's
\* context while the session to be replaced still holds its sequence.
SeqChatClear ==
    /\ sequences.pc = "chatLoop"
    /\ sequences' = getSequence(sequences.name, "chatLoop")
    /\ UNCHANGED <<mmvars, dlvars, comparison, stream, custom,
                   chatMenu>>

\* A line that is no command is given to the chat session (part_001 lines
\* 426-433), on the sequence the session holds.
SeqChatPrompt ==
    /\ sequences.pc = "chatLoop"
    /\ sequences' = [sequences EXCEPT !.pc = "awaitChatPrompt"]
    /\ UNCHANGED <<mmvars, dlvars, comparison, stream, custom,
                   chatMenu>>

\* The chat's prompt settles: an error is reported and the loop goes on
\* (part_001 lines 434-438).
SeqChatPromptSettled ==
    /\ sequences.pc = "awaitChatPrompt"
    /\ sequences' = [sequences EXCEPT !.pc = "chatLoop"]
    /\ UNCHANGED <<mmvars, dlvars, comparison, stream, custom,
                   chatMenu>>

\* /exit and /model (part_001 lines 389-395, 411-419): the chat's context is
\* disposed, and its sequences with it; /model goes on to chatMode.
SeqChatLeave(command) ==
    /\ sequences.pc = "chatLoop"
    /\ sequences' = [sequences EXCEPT
                       !.pc = IF command = "/model" THEN "chatSelect"
                              ELSE "menu",
                       !.context[sequences.name] = "disposed",
                       !.used[sequences.name] = 0,
                       !.unused[sequences.name] = 0]
    /\ UNCHANGED <<mmvars, dlvars, comparison, stream, custom,
                   chatMenu>>

NextSequences ==
    \/ \E name \in Ids : SeqRunSingle(name)
    \/ \E ok \in BOOLEAN : SeqPromptSettled(ok)
    \/ \E name \in Ids : SeqCollected(name)
    \/ SeqChatMode
    \/ SeqChatInvalid
    \/ \E name \in Ids : SeqChatInit(name)
    \/ SeqChatClear
    \/ SeqChatPrompt
    \/ SeqChatPromptSettled
    \/ \E command \in {"/exit", "/model"} : SeqChatLeave(command)

\* The tool at its menu, running single inferences and chats.
SpecSequences == Init /\ [][NextSequences]_vars

\* ------------------------------------------ loadCustomModel (lines 268-295)
\* The most engine loads loadCustomModel calls make in one behaviour.
MaxCustomLoads == 2

\* loadCustomModel(modelPath) up to its first await, exists saying whether the
\* file is there and initialized whether this.llama is set: the two tests throw, a pair under the key is returned,
\* otherwise llama.loadModel is awaited.
CallLoadCustomModel(modelPath, exists, initialized) ==
    /\ custom.pc = "idle"
    /\ custom' =
          IF ~initialized
          THEN [custom EXCEPT !.path = modelPath, !.out = "NotInitialized",
                              !.pair = NoPair]
          ELSE IF ~exists
          THEN [custom EXCEPT !.path = modelPath, !.out = "ArtifactMissing",
                              !.pair = NoPair]
          ELSE IF custom.loadedModels[customName(modelPath)] # NoPair
          THEN [custom EXCEPT !.path = modelPath, !.out = "pair",
                              !.pair = custom.loadedModels[customName(modelPath)]]
          ELSE [custom EXCEPT !.path = modelPath, !.out = "none",
                              !.pair = NoPair, !.pc = "awaitLoadModel"]
    /\ custom.loads < MaxCustomLoads \/ ~initialized \/ ~exists
          \/ custom.loadedModels[customName(modelPath)] # NoPair
    /\ UNCHANGED <<mmvars, dlvars, comparison, stream, sequences,
                   chatMenu>>

\* this.llama.loadModel({modelPath}) settles (lines 284-287).
CustomLoadModelSettled(ok) ==
    /\ custom.pc = "awaitLoadModel"
    /\ custom' = IF ok
                 THEN [custom EXCEPT !.pc = "awaitCreateContext",
                                     !.loads = @ + 1]
                 ELSE [custom EXCEPT !.pc = "idle", !.out = "LoadError"]
    /\ UNCHANGED <<mmvars, dlvars, comparison, stream, sequences,
                   chatMenu>>

\* model.createContext settles (lines 289-294): the pair is put under the key
\* and returned.
CustomCreateContextSettled(ok) ==
    /\ custom.pc = "awaitCreateContext"
    /\ custom' = IF ok
                 THEN [custom EXCEPT
                         !.pc = "idle", !.out = "pair", !.pair = custom.path,
                         !.loadedModels[customName(custom.path)] = custom.path]
                 ELSE [custom EXCEPT !.pc = "idle", !.out = "LoadError"]
    /\ UNCHANGED <<mmvars, dlvars, comparison, stream, sequences,
                   chatMenu>>

NextCustom ==
    \/ \E modelPath \in Paths, exists \in BOOLEAN, initialized \in BOOLEAN :
          CallLoadCustomModel(modelPath, exists, initialized)
    \/ \E ok \in BOOLEAN : CustomLoadModelSettled(ok)
    \/ \E ok \in BOOLEAN : CustomCreateContextSettled(ok)

\* loadCustomModel called again and again, one call at a time.
SpecCustom == Init /\ [][NextCustom]_vars

\* ------------------------------------------ chatMode (part_001 442-526)
\* Entries of this.models (multi-model.ts lines 27-200), in catalog order,
\* with their size strings: the number in hundredths and the unit.
Catalog ==
    << [name |-> "qwen2.5:0.5b", size |-> [value |-> 40, unit |-> "GB"]],
       [name |-> "smollm:135m", size |-> [value |-> 15, unit |-> "GB"]],
       [name |-> "phi3:mini", size |-> [value |-> 230, unit |-> "GB"]],
       [name |-> "gemma2:2b", size |-> [value |-> 160, unit |-> "GB"]],
       [name |-> "mistral:7b", size |-> [value |-> 440, unit |-> "GB"]] >>

CatalogNames == {Catalog[i].name : i \in 1..Len(Catalog)}

\* parseSizeToBytes (part_001 lines 24-34), in hundredths of a megabyte.
parseSizeToBytes(size) ==
    IF size.unit = "MB" THEN size.value ELSE size.value * 1024

\* parseInt(config.size): the digits before the point.
parseInt(size) == size.value \div 100

\* modelConfigs.sort((a, b) => sizeA - sizeB) (part_001 lines 459-463).
RECURSIVE InsertBySize(_, _)
InsertBySize(sorted, config) ==
    IF sorted = <<>> THEN <<config>>
    ELSE IF parseSizeToBytes(config.size) - parseSizeToBytes(Head(sorted).size) < 0
    THEN <<config>> \o sorted
    ELSE <<Head(sorted)>> \o InsertBySize(Tail(sorted), config)

RECURSIVE SortBySize(_)
SortBySize(configs) ==
    IF configs = <<>> THEN <<>>
    ELSE InsertBySize(SortBySize(SubSeq(configs, 1, Len(configs) - 1)),
                      configs[Len(configs)])

\* The four groups of the listing (part_001 lines 470-511).
IsTiny(config) == config.size.unit = "MB" /\ parseInt(config.size) < 500

IsSmall(config) == config.size.unit = "MB" /\ parseInt(config.size) >= 500

IsMedium(config) ==
    config.size.unit = "GB" /\ config.size.value >= 100 /\ config.size.value < 300

IsLarge(config) == config.size.unit = "GB" /\ config.size.value >= 300

\* The models in the order displayCompactModel prints them: the model printed
\* with displayIndex k is at position k.
Listing(modelConfigs) ==
    SelectSeq(modelConfigs, IsTiny) \o SelectSeq(modelConfigs, IsSmall)
        \o SelectSeq(modelConfigs, IsMedium) \o SelectSeq(modelConfigs, IsLarge)

\* chatMode up to the question (part_001 lines 442-515), available being the
\* answer of getAvailableModels: with no model it returns, otherwise the
\* configs are sorted by size and listed by group.
ChatMode(available) ==
    /\ chatMenu.pc = "menu"
    /\ LET configs == SortBySize(SelectSeq(Catalog,
                                   LAMBDA c : c.name \in available))
       IN chatMenu' =
             IF available = {} THEN [chatMenu EXCEPT !.pc = "returned"]
             ELSE [chatMenu EXCEPT !.pc = "select", !.modelConfigs = configs,
                                   !.listed = Listing(configs)]
    /\ UNCHANGED <<mmvars, dlvars, comparison, stream, sequences, custom>>

\* The number entered is read (part_001 lines 516-525): modelConfigs at
\* modelChoice - 1 is the model chatModeWithModel is called with.
SelectModel(modelChoice) ==
    /\ chatMenu.pc = "select"
    /\ chatMenu' =
          IF modelChoice - 1 < 0 \/ modelChoice - 1 >= Len(chatMenu.modelConfigs)
          THEN [chatMenu EXCEPT !.pc = "returned", !.modelChoice = modelChoice]
          ELSE [chatMenu EXCEPT
                  !.pc = "chat", !.modelChoice = modelChoice,
                  !.selectedModel = chatMenu.modelConfigs[modelChoice].name]
    /\ UNCHANGED <<mmvars, dlvars, comparison, stream, sequences, custom>>

NextChatMode ==
    \/ \E available \in SUBSET CatalogNames : ChatMode(available)
    \/ \E modelChoice \in 0..(Len(Catalog) + 1) : SelectModel(modelChoice)

SpecChatMode == Init /\ [][NextChatMode]_vars

\* ------------------------------------------------------------ properties
\* The live model handles that exist for name: the registered one and those a
\* loadModel call in progress has obtained from the engine.
Constructed(name) ==
    (({Get(name).model} \ {0})
       \cup {c.model : c \in {d \in Calls : /\ d.name = name
                                           /\ d.pc = "awaitCreateContext"}})
    \ disposedModels

\* C1: concurrent loadModel calls for one id make the engine construct one
\* model handle only: at no point do two live handles exist for one id.
OnePairPerId == \A name \in Ids : Cardinality(Constructed(name)) <= 1

\* C2: with name registered, loadModel returns the registered pair at once,
\* with no engine call pending and the state untouched; inferSingle goes on
\* with the registered context.
ReuseReturnsRegistered ==
    \A name \in Ids, f \in FileStates :
        Has(name) =>
            /\ LoadModelEntry(Start("loadModel", name), f)
                   = Outcome(Idle, ReturnPair(Get(name)))
            /\ LoadModelEntry(Start("inferSingle", name), f).th
                   = [Start("inferSingle", name) EXCEPT !.pc = "afterLoad",
                                                       !.context = Get(name).context]

\* Two inferSingle calls hold the registered context of one name: the engine
\* numbers every context it creates differently, so one of them got it from
\* the registry.
ReuseHappened ==
    \E r \in Calls :
        /\ r.op = "inferSingle" /\ r.pc = "afterLoad"
        /\ Has(r.name)
        /\ r.context = Get(r.name).context
        /\ \/ CopiesIn(r, threads) > 1
           \/ \E u \in Calls \ {r} : u.op = "inferSingle" /\ u.context = r.context

\* No call is in progress: the tool is at a menu.
AtMenu == threads = EmptyBag

\* C3: between operations, no handle of a registry entry has been disposed.
RegistryLive ==
    AtMenu =>
        \A name \in Ids :
            Has(name) => /\ Get(name).context \notin disposedContexts
                         /\ Get(name).model \notin disposedModels

\* C4: a descriptor whose enabled flag is false has no registry entry.
DisabledNotLoaded == \A id \in Ids : ~enabled[id] => ~Has(id)

\* C5: a model's dispose is invoked only after its context's, and an entry
\* leaves the registry only after both were invoked.
ContextBeforeModel ==
    [][/\ disposedModels' \subseteq disposedContexts'
       /\ \A name \in Ids :
             (Has(name) /\ ~Has(name)') =>
                 /\ Get(name).context \in disposedContexts'
                 /\ Get(name).model \in disposedModels']_vars

\* C6: a dispose that fails during eviction is caught: no rejection is left
\* without a handler, and what was evicted by setModelEnabled has left the
\* registry.
DisposalFailureCaught ==
    /\ ~unhandled
    /\ \A e \in evicted : Get(e[1]).model # e[2]

\* C7: when dispose() returns, the context and the model of every entry that
\* was registered at the call have had dispose invoked and the registry is
\* empty.
DisposeAllEvictsAll ==
    [][\A r \in Calls :
          (r.op = "dispose" /\ \A c \in BagToSet(threads') : c.op # "dispose") =>
              /\ r.snap \subseteq disposedContexts'
              /\ r.snap \subseteq disposedModels'
              /\ loadedModels' = MapClear]_vars

\* C8: a loadModel call made while the artifact is not Complete has failed
\* when it gives control back, with ArtifactMissing, or with NotInitialized
\* when the engine was never established: no engine call is pending.
LoadRequiresComplete ==
    [][\A name \in Ids, f \in FileStates \ {"Complete"} :
          CallLoadModel(name, f) =>
              LoadModelEntry(Start("loadModel", name), f)
                  = Outcome(Idle, Raise(IF llama THEN "ArtifactMissing"
                                        ELSE "NotInitialized"))]_vars

\* C9: a pair evicted by setModelEnabled(name, false) is never registered or
\* returned again: the registered pair, the pair a load in progress is about
\* to register and every handle the engine will construct differ from it, and
\* the next loadModel(name) goes to the engine.
EvictedNeverReturned ==
    \A e \in evicted :
        /\ Get(e[1]).model # e[2]
        /\ Get(e[1]).context # e[2]
        /\ e[2] < nextHandle
        /\ \A c \in Calls : c.pc = "awaitCreateContext" => c.model # e[2]
        /\ (~Has(e[1]) /\ llama) =>
              LoadModelEntry(Start("loadModel", e[1]), "Complete").th.pc = "awaitLoadModel"

\* A name was evicted and loaded again.
ReloadedAfterEvict ==
    \E e \in evicted : Has(e[1]) /\ Get(e[1]).model # e[2]

\* C10: setModelEnabled(name, false) leaves name without an entry, and on a
\* name without an entry (evicted just before, never loaded, or not in the
\* catalog) it invokes no dispose and leaves the registry as it is.
EvictIdempotent ==
    [][\A name \in Names, rej \in BOOLEAN :
          SetModelEnabled(name, FALSE, rej) =>
              /\ ~Has(name)'
              /\ ~Has(name) =>
                    UNCHANGED <<loadedModels, loadedPos, disposedContexts,
                                disposedModels, evicted, unhandled>>]_vars

\* name was evicted and is neither loaded nor enabled: a second
\* setModelEnabled(name, false) finds no entry.
EvictedAndAbsent ==
    \E e \in evicted : ~Has(e[1]) /\ ~enabled[e[1]]

\* The call that made the tool stop, if any, was not a batch call.
BatchOps == ParOps \cup SeqOps \cup {"parLoad", "parInfer", "parFresh"}

\* A result returned for a model that failed: duration 0 and 'Error: ...'.
ErrorShaped(res) == res.duration = 0 /\ res.response[1] = "Error: "

\* C11: inferParallel and inferSequential never raise: every failure of one
\* model becomes that model's result, with duration 0 and an error response,
\* and there is one result per model enabled at the call.
BatchNeverRaises ==
    /\ \A c \in Calls : c.pc = "crashed" => c.out \notin BatchOps
    /\ \A r \in Calls :
          r.op \in ParOps =>
              /\ {c.name : c \in ParCalls} = r.snap
              /\ Cardinality(ParCalls) = Cardinality(r.snap)
              /\ \A c \in ParCalls : CopiesIn(c, threads) = 1
              /\ (r.pc = "awaitInference" /\ ParQuiet) =>
                    /\ Cardinality(ParallelResults) = Cardinality(r.snap)
                    /\ \A c \in ParCalls :
                          /\ c.out \in {"result", "error"}
                          /\ c.out = "error" =>
                                ErrorShaped(InferenceResult(c.name, c.out, c.err))
                          /\ c.out = "result" =>
                                ~ErrorShaped(InferenceResult(c.name, c.out, c.err))
    /\ \A r \in Calls :
          r.op \in SeqOps =>
              /\ {r.results[i].model : i \in 1..Len(r.results)} \subseteq r.snap
              /\ \A i \in 1..Len(r.results), j \in 1..Len(r.results) :
                    r.results[i].model = r.results[j].model => i = j
              /\ r.pc = "seqReturned" => Len(r.results) = Cardinality(r.snap)
              /\ \A i \in 1..Len(r.results) :
                    \/ ErrorShaped(r.results[i])
                    \/ r.results[i] = InferenceResult(r.results[i].model, "result", "none")

\* inferParallel is about to return one error result and one result of a
\* successful exchange.
BatchMixedResults ==
    \E r \in Calls :
        /\ r.op \in ParOps /\ r.pc = "awaitInference" /\ ParQuiet
        /\ \E c \in ParCalls, d \in ParCalls : c.out = "error" /\ d.out = "result"
\* C12: inferSequential's results are in catalog order of the models enabled
\* at the call: result i is the i-th enabled model's, and the one inference in
\* progress is that of the model right after the results appended so far.
SequentialOrder ==
    \A r \in Calls :
        r.op \in SeqOps =>
            /\ Len(r.results) <= Cardinality(r.snap)
            /\ \A i \in 1..Len(r.results) :
                  r.results[i].model = EnabledModels(r.snap)[i]
            /\ r.pc # "seqReturned" =>
                  /\ Len(r.results) < Cardinality(r.snap)
                  /\ r.name = EnabledModels(r.snap)[Len(r.results) + 1]
            /\ r.pc = "seqReturned" => Len(r.results) = Cardinality(r.snap)
            /\ \A c \in Calls : c = r /\ CopiesIn(c, threads) = 1

\* inferSequential returns two results, the first model's an error and the
\* second model's a success.
SequentialTwoResults ==
    \E r \in Calls :
        /\ r.op \in SeqOps /\ r.pc = "seqReturned" /\ Len(r.results) = 2
        /\ r.results[1].duration = 0 /\ r.results[2].duration = Elapsed
\* C13: an inferSingle call that obtained a sequence clears its history before
\* it completes, whether the prompt succeeded or failed: no prompt runs on a
\* reused context whose sequence holds what an earlier call evaluated.
NoLeftoverHistory ==
    \A r \in Calls : r.pc = "awaitPrompt" => r.context \notin history
\* C14: a failed exchange of inferSingle (load error or prompt error) is
\* returned as a result carrying the error message, it is not raised: the
\* tool's runSingle, which has no handler, is never ended by such an error.
SingleFailureIsData ==
    \A c \in Calls :
        c.pc = "crashed" /\ c.out = "runSingle" =>
            c.err \notin {"LoadError", "InferenceFailure"}
\* C15: loadModel's 'not initialized' and 'file not found' errors are raised
\* to the direct caller of loadModel and of inferSingle, with no engine call
\* awaited for the request; in the tool they leave runSingle and the chat
\* set-up as errors, never as results.
PreconditionErrorsRaised ==
    /\ \A name \in Ids, f \in FileStates :
          LET lm == LoadModelEntry(Start("loadModel", name), f)
              is == InferSingleEntry(Start("inferSingle", name), f)
          IN /\ ~llama =>
                   /\ lm = Outcome(Idle, Raise("NotInitialized"))
                   /\ is = Outcome(Idle, Raise("NotInitialized"))
             /\ llama /\ ~Has(name) /\ ~existsSync(f) =>
                   /\ lm = Outcome(Idle, Raise("ArtifactMissing"))
                   /\ is = Outcome(Idle, Raise("ArtifactMissing"))
             /\ llama /\ ~Has(name) /\ existsSync(f) =>
                   /\ lm.th.pc = "awaitLoadModel" /\ lm.ret = NoReturn
                   /\ is.th.pc = "awaitLoadModel" /\ is.ret = NoReturn
    /\ \A c \in Calls :
          /\ c.err \in {"NotInitialized", "ArtifactMissing"} =>
                /\ c.model = 0 /\ c.context = 0
                /\ c.pc = "crashed" => c.out \in {"runSingle", "chat"}

\* The tool's runSingle was ended by inferSingle's 'file not found' error.
ArtifactMissingRaised ==
    \E c \in Calls :
        c.pc = "crashed" /\ c.out = "runSingle" /\ c.err = "ArtifactMissing"
\* C16: in inferParallel every pre-load has settled, with success or failure,
\* when the first inference callback starts, and every model enabled at the
\* call gets its inference callback whether its pre-load failed or not.
PreloadBeforeInference ==
    [][\A r \in Calls :
          /\ r.op \in ParOps /\ r.pc = "awaitPreload" =>
                \A c \in ParCalls : c.op = "parLoad"
          /\ (r.pc = "awaitPreload"
                /\ [r EXCEPT !.pc = "awaitInference"] \in BagToSet(threads')) =>
                /\ \A c \in ParCalls : c.pc = "done" /\ c.out \in {"true", "false"}
                /\ {c.name : c \in {d \in BagToSet(threads') :
                                       d.op \in {"parInfer", "parFresh"}}} = r.snap
      ]_vars

\* The inference phase runs for a model whose pre-load failed next to the
\* inference of a model that was pre-loaded.
InferenceAfterFailedPreload ==
    \E r \in Calls, c \in Calls, d \in Calls :
        /\ r.op \in ParOps /\ r.pc = "awaitInference"
        /\ c.op = "parFresh" /\ c.pc = "awaitFreshLoadModel"
        /\ d.op = "parInfer" /\ d.pc = "awaitPrompt"
\* The download has no fallback and every transfer so far ended with an error
\* other than an authentication failure.
TransportOnly ==
    /\ dl.pc \in {"transfer", "transferExit", "backoff", "returned"}
    /\ ~dl.fallbackUrl
    /\ \A i \in 1..Len(transfers) : transfers[i].res = "other"

\* C17: with no fallback and transport failures only, downloadModel runs the
\* transfer maxAttempts times, each on the primary locator, and then returns
\* false: not before, and with no further transfer.
NoFallbackExhausts ==
    TransportOnly =>
        /\ Len(transfers) <= maxAttempts
        /\ \A i \in 1..Len(transfers) : transfers[i].url = "primary"
        /\ dl.ret # "true"
        /\ dl.pc = "returned" => dl.ret = "false" /\ Len(transfers) = maxAttempts
        /\ dl.pc = "transfer" =>
              Len(transfers) = dl.attempts /\ dl.attempts < maxAttempts
        /\ dl.pc = "backoff" =>
              Len(transfers) = dl.attempts /\ dl.attempts < maxAttempts

\* downloadModel returned false after three failed transfers, no fallback.
ExhaustedOnPrimary ==
    /\ TransportOnly /\ Len(transfers) = 3
    /\ dl.pc = "returned" /\ dl.ret = "false"

\* C18: with a fallback, once a transfer from the primary locator ended with
\* an authentication failure every later transfer uses the fallback.
PrimaryNotRetried ==
    dl.fallbackUrl =>
        \A i \in 1..Len(transfers), j \in 1..Len(transfers) :
            (i < j /\ transfers[i].url = "primary" /\ transfers[i].res = "auth")
                => transfers[j].url = "fallback"

\* C19: downloadModel changes the file at filePath only by renaming a temp
\* file that exists and is not empty over it; a download that returned false
\* left there what was there at the call.
DestinationOnlyByRename ==
    /\ [](dl.ret = "false" =>
            IF dl.existed THEN destFile.from = "previous" ELSE destFile = NoFile)
    /\ [][destFile' # destFile =>
            /\ tempFile # NoFile /\ tempFile.size # 0
            /\ destFile' = tempFile /\ tempFile' = NoFile]_vars

\* A re-download replaced the model file of an earlier download.
OverwrittenByRename ==
    /\ dl.existed /\ dl.ret = "true"
    /\ destFile.from \in Locators /\ destFile.size # 0

\* C20: the temp file is renamed to filePath only when it is not empty and,
\* with a declared size, within 1% of it.
RenamedWithinTolerance ==
    dl.ret = "true" =>
        /\ destFile.size # 0
        /\ ~OutsideTolerance(destFile.size, dl.expectedSize)

\* C21: a downloaded file more than 1% off the declared size does not fail the
\* attempt: when a transfer has resolved, the attempt fails only for a temp
\* file that is missing or empty (or a rename that throws), and otherwise
\* the temp file is installed at filePath, whatever its size, with the
\* attempt counter unchanged and true returned.
SizeMismatchInstalls ==
    [][(dl.pc \in {"transferExit", "fallbackExit"} /\ dl.msg = <<>>) =>
          /\ dl'.attempts # dl.attempts =>
                /\ dl'.attempts = dl.attempts + 1
                /\ destFile' = destFile
                /\ dl'.msg \in {<<"Download file not found after completion">>,
                                <<"Downloaded file is empty">>, <<"rename failed">>}
                /\ dl'.msg = <<"Download file not found after completion">>
                      <=> tempFile = NoFile
                /\ dl'.msg = <<"Downloaded file is empty">>
                      <=> (tempFile # NoFile /\ tempFile.size = 0)
          /\ dl'.attempts = dl.attempts =>
                /\ dl'.pc = "returned" /\ dl'.ret = "true"
                /\ tempFile # NoFile /\ tempFile.size # 0
                /\ destFile' = tempFile
      ]_vars

\* The first attempt installed a file more than 1% off the declared size and
\* downloadModel returned true.
MismatchInstalled ==
    /\ dl.pc = "returned" /\ dl.ret = "true" /\ dl.attempts = 0
    /\ OutsideTolerance(destFile.size, dl.expectedSize)

\* C22: every transfer, the one from the fallback after an authentication
\* failure included, starts with no temp file left by an earlier transfer,
\* and no temp file remains when downloadModel returns false.
TransferStartsClean ==
    /\ dl.pc \in {"transfer", "fallback"} => tempFile = NoFile
    /\ dl.ret = "false" => tempFile = NoFile

\* C23: a model is reported as downloaded already, and left alone, only when
\* its file is complete: it exists, is not empty and is within the tolerance
\* of the declared size.
AlreadyDownloadedIsComplete ==
    dl.pc = "alreadyDownloaded" =>
        /\ destFile # NoFile /\ destFile.size # 0
        /\ ~OutsideTolerance(destFile.size, dl.expectedSize)

\* C27: the status shown for a model file is 'complete' exactly when the file
\* exists, is not empty and, with a declared size, is within 1% of it.
StatusByTolerance ==
    dl.pc = "menu" =>
        (dl.status = "check" <=>
            /\ destFile # NoFile /\ destFile.size # 0
            /\ ~OutsideTolerance(destFile.size, dl.expectedSize))

\* C29: a downloadModel call returns true or false; the attempt counter grows
\* by one exactly when an attempt fails, never beyond maxAttempts, and not on
\* the switch to the fallback; the two-second wait follows a failed attempt
\* only while attempts remain.
AcquisitionTerminates ==
    /\ [](dl.pc = "transfer" => <>(dl.pc = "returned"))
    /\ [](/\ dl.attempts <= maxAttempts
          /\ dl.pc = "backoff" => (dl.attempts >= 1 /\ dl.attempts < maxAttempts)
          /\ dl.pc = "returned" => dl.ret \in {"true", "false"}
          /\ dl.ret = "false" => dl.attempts = maxAttempts)
    /\ [][/\ dl'.attempts \in {dl.attempts, dl.attempts + 1}
          /\ dl'.pc = "fallback" => dl'.attempts = dl.attempts
          /\ dl'.attempts = dl.attempts + 1 <=>
                (dl.pc \in {"transferExit", "fallbackExit"}
                 /\ dl'.pc \in {"backoff", "returned"} /\ dl'.ret # "true")
      ]_vars

\* downloadModel returned false after three attempts, one of which went to
\* the fallback.
ExhaustedWithFallback ==
    /\ dl.pc = "returned" /\ dl.ret = "false" /\ dl.attempts = 3
    /\ \E i \in 1..Len(transfers) : transfers[i].url = "fallback"

\* C30: an authentication failure with no fallback configured, or of a
\* transfer from the fallback, costs one attempt and the next transfer uses
\* the same locator.
AuthFailureRetriesSameLocator ==
    \A i \in 1..Len(transfers), j \in 1..Len(transfers) :
        (/\ j = i + 1
         /\ transfers[i].res = "auth"
         /\ ~dl.fallbackUrl \/ transfers[i].url = "fallback")
            => transfers[j].url = transfers[i].url

\* C24: getAvailableModels returns exactly the models whose file is complete
\* on disk at the call: the models the tool's runParallel enables from its
\* answer are those with a complete file, never one with an absent or
\* partial file.
AvailableAreComplete ==
    [][\A avail \in SUBSET Ids, files \in [Ids -> FileStates] :
          (avail = getAvailableModels(files) /\ RunParallel(avail, files)) =>
              \A i \in Ids : i \in avail <=> files[i] = "Complete"
      ]_vars

\* C28: the tool launched with the path of a .gguf file goes on to a chat
\* session with that model: it does not exit with no session opened.
GgufArgumentChats ==
    \A c \in Calls :
        (c.op = "main" /\ c.pc = "exited") => currentChatSession # NoSession

\* The durations listed, in the order printed.
Durations(l) == [i \in 1..Len(l) |-> l[i].duration]

\* C25: the compact comparison lists every result once, every entry with
\* duration 0 after every entry with a non-zero duration, and the non-zero
\* entries in ascending order of duration, however many entries have
\* duration 0.
FailedLastFastestFirst ==
    (comparison.pc = "displayed" /\ comparison.compact) =>
        LET l == comparison.sorted
        IN  /\ Len(l) = Len(comparison.results)
            /\ {l[i] : i \in 1..Len(l)} =
                   {comparison.results[i] : i \in 1..Len(l)}
            /\ \A i \in 1..Len(l), j \in 1..Len(l) :
                  i < j =>
                      /\ l[i].duration = 0 => l[j].duration = 0
                      /\ l[j].duration # 0 => l[i].duration <= l[j].duration

\* Four results, the two failed ones first and third, the slower of the two
\* others before the faster, listed compactly.
SeveralFailedSorted ==
    /\ comparison.pc = "displayed"
    /\ comparison.compact
    /\ Durations(comparison.results) = <<0, 2, 0, 1>>
    /\ Durations(comparison.sorted) = <<1, 2, 0, 0>>

\* The text that results from joining chunks in order.
RECURSIVE Concatenation(_)
Concatenation(chunks) ==
    IF chunks = <<>> THEN <<>>
    ELSE Head(chunks) \o Concatenation(Tail(chunks))

\* C26: a streaming inference writes every chunk out, in the order the chunks
\* arrived, and the response of the result it returns is the concatenation
\* of exactly those chunks in that order.
ChunksForwardedAndJoined ==
    /\ stream.stdout = stream.chunks
    /\ stream.pc = "returned" =>
          stream.result = Concatenation(stream.chunks)

\* A result returned after three chunks of different text.
StreamedThreeChunks ==
    /\ stream.pc = "returned"
    /\ stream.chunks = <<<<"b", "c">>, <<>>, <<"a">>>>
    /\ stream.result = <<"b", "c", "a">>

\* C31: whichever helper ran the transfer, its failure reads as an
\* authentication failure exactly when the server answered 401 or 403; a 404
\* or another HTTP error never does.
AuthExactlyOn401Or403 ==
    [][\A e \in Endings, file \in Files :
          TransferExits(e, file) =>
              \A answer \in ServerAnswers(e) :
                  IsAuthError(dl'.msg) <=> answer \in {"401", "403"}
      ]_vars

\* C32: a transfer runs one helper only, wget if it is there, curl only when
\* wget is not, https.get only when neither is; a transfer that failed is
\* followed by no other helper within the same invocation.
OneStrategyInOrder ==
    /\ Len(dl.ran) <= 1
    /\ dl.pc \in {"transferExit", "fallbackExit"} => Len(dl.ran) = 1
    /\ dl.ran = <<"wget">> => dl.wget = "yes"
    /\ dl.ran = <<"curl">> => dl.wget = "no" /\ dl.curl = "yes"
    /\ dl.ran = <<"node">> => dl.wget = "no" /\ dl.curl = "no"
    /\ dl.wget = "yes" /\ dl.ran # <<>> => dl.ran = <<"wget">>
    /\ dl.curl = "yes" /\ dl.ran # <<>> => dl.ran = <<"curl">>

\* curl failed with wget missing, and the attempt was given up with https.get
\* never run.
CurlFailedAlone ==
    /\ dl.pc = "backoff"
    /\ dl.ran = <<"curl">>
    /\ dl.wget = "no"
    /\ dl.msg = <<"curl exited with code ", "7">>

\* C33: after a download from the tool's menu has failed, the file that was
\* at the final path before is still there untouched, and if there was none
\* there is none now: nothing partial for getAvailableModels to report.
FailedToolDownloadKeepsFile ==
    (dl.pc = "toolMenu" /\ dl.ret = "failed") =>
        IF dl.existed THEN destFile # NoFile /\ destFile.from = "previous"
        ELSE destFile = NoFile

Timed(c) ==
    \/ c.op = "parInfer" /\ c.pc # "done"
    \/ /\ c.op = "parFresh"
       /\ c.pc \in {"awaitFreshPrompt", "awaitFreshContextDispose",
                    "awaitFreshModelDispose"}

\* The callback c awaits the engine's loadModel or createContext.
EngineLoading(c) ==
    c.pc \in {"awaitLoadModel", "awaitCreateContext", "awaitFreshLoadModel",
              "awaitFreshCreateContext"}

\* C35: no inference callback of inferParallel awaits the engine's load of
\* its model or the creation of its context while its duration is measured:
\* the measurement of inferSingle starts with the pair registered, that of
\* the fresh instance after model and context exist, also for a model whose
\* pre-load failed or whose pair was evicted after the pre-load.
NoLoadWhileTimed ==
    \A c \in ParCalls :
        /\ ~(Timed(c) /\ EngineLoading(c))
        /\ (c.op = "parInfer" /\ c.pc # "done") => c.context # 0
        /\ (c.op = "parFresh" /\ Timed(c)) => c.model # 0 /\ c.context # 0

\* The fresh instance of a model whose registered pair was evicted is being
\* prompted, its model and context created before the measurement started.
FreshTimedAfterEviction ==
    \E c \in ParCalls :
        /\ c.op = "parFresh" /\ c.pc = "awaitFreshPrompt"
        /\ \E e \in evicted : e[1] = c.name
        /\ ~Has(c.name)

\* C36: no model handle the engine constructed is orphaned: it is referenced
\* by the registry, or dispose was invoked on it, or the call that obtained
\* it is still in progress.
NoOrphanedHandle ==
    \A h \in 1..(nextHandle - 1) :
        \/ h \in disposedModels
        \/ \E n \in Ids : Get(n).model = h
        \/ \E c \in Calls : c.model = h

\* C37: the context an inferSingle call in progress got from loadModel has
\* had no dispose invoked while the call is about to prompt or awaits the
\* prompt, whatever setModelEnabled and dispose() calls are made meanwhile.
NoDisposeUnderInference ==
    \A c \in Calls :
        (c.op = "inferSingle" /\ c.pc \in {"afterLoad", "awaitPrompt"})
            => c.context \notin disposedContexts

\* C38: of a registered context, created with room for one sequence, never
\* more than one sequence is obtained and not released, and no getSequence
\* call of a single inference or of the chat is refused for lack of a free
\* sequence.
SequenceAlwaysFree ==
    /\ \A i \in Ids : Outstanding(i) <= SequenceCapacity
    /\ ~sequences.refused

\* C39: the pair loadCustomModel returns was loaded from the file at the path
\* it was called with, whatever other paths it was called with before.
CustomPairFromOwnFile ==
    custom.out = "pair" => custom.pair = custom.path

\* C40: chat mode lists every available model with a number, and the number
\* k shown next to a model starts the chat with that model.
NumberSelectsListedModel ==
    /\ chatMenu.pc = "select" =>
          {chatMenu.listed[k].name : k \in 1..Len(chatMenu.listed)}
              = {chatMenu.modelConfigs[k].name :
                    k \in 1..Len(chatMenu.modelConfigs)}
    /\ (chatMenu.pc \in {"chat", "returned"}
          /\ chatMenu.modelChoice \in 1..Len(chatMenu.listed)) =>
          /\ chatMenu.pc = "chat"
          /\ chatMenu.selectedModel = chatMenu.listed[chatMenu.modelChoice].name
====
